---- MODULE Spec2Model ----
(***************************************************************************)
(* Session layer of smscli-client (src/smscliclient/smscliclient.py):      *)
(* ConnectionHandler (connect / setup_connection / read_server /           *)
(* write_server / read_loop / receive_message / send_message), the         *)
(* commands that drive it (CommandHandler.do_connect, do_disconnect,       *)
(* do_msg), the registry State.contact_views and MainWindow.shown_views.   *)
(*                                                                         *)
(* Threads of control: the urwid main loop (variable fg) and one           *)
(* read_loop thread per successful setup_connection (variable loopers).    *)
(* Python runs them under the GIL, which can switch threads between any    *)
(* two bytecodes, so every step below that touches shared state is its     *)
(* own action and the actions interleave freely.                           *)
(***************************************************************************)
EXTENDS Integers, Sequences, FiniteSets, TLC

(* ------------------------------ bounds -------------------------------- *)

\* socket objects the process creates (one per connect with valid arguments)
MaxSockets == 2
\* frames the server sends on one connection after the initial contact list
MaxFrames == 1
\* commands the user enters (InputHandler.history grows by one per command)
MaxHistory == 3
\* messages in one conversation beyond which the user sends no more text
MaxContent == 1
\* longest text of the exhaustive chunking inputs, and their largest chunk size
MaxText == 7
MaxChunk == 3
\* messages the server sends in the specification of the view limit
MaxViewFrames == 8
\* parts of an address the user types
MaxParts == 5
\* characters of a body in the specification of the wire format
MaxBody == 2
\* words and blanks of a command line, and command lines entered in a run
MaxLine == 3
MaxCommands == 3

(* ------------------------- program constants -------------------------- *)

MAX_MESSAGE_LEN == 300
MAX_VIEWS == 6
MIN_PORT == 1
MAX_PORT == 65535

\* ViewMessage.TYPE_LOG is the integer 0 in the source; a string here, so that
\* every message_type compares with the two JSON type strings
TYPE_LOG == "LOG"
TYPE_OUTGOING == "OUTBOX"
TYPE_INCOMING == "INBOX"
USER_DISPLAY_NAME == "Me"
LOG_VIEW_ID == "0"
LOG_VIEW_NAME == "smscli"

ERROR_MESSAGE_TIMEOUT == "Connection timed out"
ERROR_MESSAGE_REFUSED == "Connection was refused"
ERROR_MESSAGE_INVALID == "Invalid command argument"
ERROR_MESSAGE_GENERIC == "Connection failed"
ERROR_LOST_CONNECTION == "Lost connection"
MESSAGE_CONNECTING == "Connecting to {ip}..."
MESSAGE_ONCONNECT == "Connected to {ip} on {port}"
CONNECT_CONNECTION_EXIST == "Already connected"
MSG_DISCONNECTED == "Not connected"
MSG_INVALID_CONTACT == "Invalid phone number or contact doesnt exist"
HELP_CONNECT == "Usage: /connect <ip> <port>"
HELP_MSG == "Usage: /msg <contact_name/phone_number>"
ERROR_MAX_VIEWS == "Cant open anymore views"

(* ------------------------------ inputs -------------------------------- *)

\* conversation ids (phone numbers) the server and the user talk about; "0",
\* the id of the log view, is one the user can give to /msg
ContactIds == {"0", "555", "777", "101", "102", "103", "104", "105"}
\* the initial contact list the server sends: id -> displayName
SnapshotNames == [c \in {"555"} |-> "Alice"]
\* ids and types of the messages the server sends after the contact list
FrameIds == {"777"}
FrameTypes == {TYPE_INCOMING}
\* arguments the user gives to /msg: a number, or a contact's name
MsgArgs == {"777", "bob", "alice"}
\* lengths of the texts the user sends
TextLens == {1, MAX_MESSAGE_LEN + 1}
\* errno classes of a failed socket.connect
ConnectOutcomes == {"ok", "ETIMEDOUT", "ECONNREFUSED", "other"}

Sockets == 1..MaxSockets
NoSocket == 0

VARIABLES
    connected,      \* ConnectionHandler.connected
    socket,         \* ConnectionHandler.socket: the socket object it names
    socks,          \* the socket objects: local state, peer state, inbound bytes
    fg,             \* the main-loop thread: where it is in the handler it runs
    loopers,        \* the read_loop threads, one per started read_looper
    contact_views,  \* State.contact_views: id -> ContactView object
    heap,           \* the ContactView objects
    shown_views,    \* MainWindow.shown_views (an OrderedDict)
    current_view,   \* MainWindow.current_view
    log_view,       \* State.log_view: the messages of the log view
    history         \* InputHandler.history: the commands entered

vars == <<connected, socket, socks, fg, loopers, contact_views, heap,
          shown_views, current_view, log_view, history>>

(* ------------------------------- data --------------------------------- *)

\* ViewMessage.__init__; message_time (wall clock) is left out
ViewMessage(body, related_view_id, sender_name, message_type) ==
    [body |-> body, related_view_id |-> related_view_id,
     sender_name |-> sender_name, message_type |-> message_type]

NoMessage == ViewMessage("", "", "", "")

\* LogView.print_message: append a TYPE_LOG message to the log view
print_message(lv, message) ==
    Append(lv, ViewMessage(message, LOG_VIEW_NAME, LOG_VIEW_NAME, TYPE_LOG))

\* A frame on the wire, by what json.loads makes of its payload:
\*   "contacts": the initial contact list (an object id -> contact dict)
\*   "msg":      an object with time, body, relatedContactId, smsMessageType
\*   "bad":      malformed JSON, or an object lacking one of those keys
Frame(kind, id, type, body) == [kind |-> kind, id |-> id, type |-> type, body |-> body]
NoFrame == Frame("none", "", "", "")
\* the empty message '' that read_server returns when the read failed
EmptyFrame == Frame("empty", "", "", "")
ContactsFrame == Frame("contacts", "", "", "")
BadFrame == Frame("bad", "", "", "")
MessageFrames(k) ==
    {Frame("msg", id, type, "m" \o ToString(k)) :
        id \in FrameIds, type \in FrameTypes}

\* The ContactView objects. An object is named by its view_id and one of two
\* slots: at most two ContactView objects of one id are ever referenced (one by
\* contact_views, one by shown_views), so a new object takes the slot that
\* shown_views does not hold, and an unreferenced object is garbage.
Refs == ContactIds \X {0, 1}
LogRef == <<LOG_VIEW_ID, 2>>

\* ContactView.__init__ with content []
ContactView(view_id, name) ==
    [view_id |-> view_id, display_name |-> name, content |-> <<>>]

ShownKeys(sv) == {sv[i].view_id : i \in DOMAIN sv}
ShownRefs(sv) == {sv[i].ref : i \in DOMAIN sv}
\* shown_views[view_id]
ShownRef(sv, view_id) ==
    sv[CHOOSE i \in DOMAIN sv : sv[i].view_id = view_id].ref
NewRef(id, sv) == IF <<id, 0>> \in ShownRefs(sv) THEN <<id, 1>> ELSE <<id, 0>>

\* An object nothing refers to is collected: its slot reads as a blank object.
Collect(h, cv, sv) ==
    [r \in Refs |->
        IF r \in ShownRefs(sv) \/ (r[1] \in DOMAIN cv /\ cv[r[1]] = r)
        THEN h[r] ELSE ContactView(r[1], r[1])]

\* View.add_message on the object r
add_message(h, r, view_message) ==
    [h EXCEPT ![r].content = Append(@, view_message)]

\* dict item assignment d[k] = v
Put(d, k, v) == [x \in DOMAIN d \cup {k} |-> IF x = k THEN v ELSE d[x]]

(* ------------------------------ sockets -------------------------------- *)

\* st:    "unused" (not created), "unconnected" (created, connect failed),
\*        "open" (connected), "closed" (shutdown(SHUT_RDWR) and close() done)
\* closes: calls of close() on the object
\* peer:  "up", "closed" (the server closed: FIN), "reset" (transport error)
\* inbox: frames received from the server and not yet read
\* sent:  frames the server has sent so far
\* out:   what the sendall calls have written, call by call (kept by the
\*        steps that take write_server one sendall at a time)
NewSocket ==
    [st |-> "unused", closes |-> 0, peer |-> "up", inbox |-> <<>>, sent |-> 0,
     out |-> <<>>]

UsedSockets == {s \in Sockets : socks[s].st # "unused"}

\* socket.recv(..., MSG_WAITALL) returns a whole frame
ReadReady(s) ==
    /\ s \in Sockets
    /\ socks[s].st = "open"
    /\ socks[s].peer # "reset"
    /\ socks[s].inbox # <<>>

\* socket.recv raises socket.error (EBADF on a closed socket, ENOTCONN on an
\* unconnected one, ECONNRESET), or returns no bytes (the peer closed, or the
\* socket was shut down under the blocked call): read_server's except branch
ReadFails(s) ==
    \/ s \notin Sockets
    \/ socks[s].st \in {"unused", "unconnected", "closed"}
    \/ socks[s].peer = "reset"
    \/ socks[s].peer = "closed" /\ socks[s].inbox = <<>>

(* ------------------------------ threads -------------------------------- *)

\* The main loop. pc: "idle" (waiting for input), "setup" (connect returned),
\* "snapshot" (in read_server for the initial data), "load" (initial data in
\* hand), "start" (contacts loaded), "views" (read_looper started),
\* "sending" (in send_message's write loop), "crashed" (an exception left the
\* handler and ended MainLoop.run), "exited" (SystemExit or ExitMainLoop
\* ended MainLoop.run).
\* data: initial_data; chunks: send_message's view_message_chunk; i: the
\* chunk the write loop is at; attempts: the write_server calls of the loop so
\* far, each with the JSON written and whether sendall succeeded
Fg(pc) == [pc |-> pc, data |-> NoFrame, chunks |-> <<>>, i |-> 0, attempts |-> <<>>]

\* A read_loop thread. pc: "idle" (not started), "while" (at the loop test),
\* "recv" (in read_server, blocked on socket s), "route" (json_message in hand),
\* "create" (receive_message found the id absent), "append" (contact known),
\* "raised" (an exception ended the thread), "done" (read_loop returned).
\* created: this receive_message call took the branch that makes the contact
Looper(pc) ==
    [pc |-> pc, s |-> NoSocket, frame |-> NoFrame, vm |-> NoMessage,
     created |-> FALSE]

Init ==
    /\ connected = FALSE
    /\ socket = NoSocket
    /\ socks = [s \in Sockets |-> NewSocket]
    /\ fg = Fg("idle")
    /\ loopers = [s \in Sockets |-> Looper("idle")]
    /\ contact_views = [c \in {} |-> LogRef]
    /\ heap = [r \in Refs |-> ContactView(r[1], r[1])]
    /\ shown_views = <<[view_id |-> LOG_VIEW_ID, ref |-> LogRef]>>
    /\ current_view = LOG_VIEW_ID
    /\ log_view = print_message(<<>>, "Welcome to smscli")
    /\ history = <<>>

(* ----------------------- the server and the network -------------------- *)

\* The server writes a frame: the contact list first, then messages (or a
\* payload the client cannot decode).
ServerSend(s, f) ==
    /\ socks[s].st = "open"
    /\ socks[s].peer = "up"
    /\ socks[s].sent <= MaxFrames
    /\ IF socks[s].sent = 0
       THEN f = ContactsFrame
       ELSE f \in MessageFrames(socks[s].sent) \cup {BadFrame}
    /\ socks' = [socks EXCEPT ![s].inbox = Append(@, f), ![s].sent = @ + 1]
    /\ UNCHANGED <<connected, socket, fg, loopers, contact_views, heap,
                   shown_views, current_view, log_view, history>>

\* messages from the contacts of the contact list
KnownFrames(k) ==
    {Frame("msg", id, type, "m" \o ToString(k)) :
        id \in DOMAIN SnapshotNames, type \in FrameTypes}

\* The server writes a frame: the contact list first, then messages from its
\* contacts (or a payload the client cannot decode).
ServerSendKnown(s, f) ==
    /\ socks[s].st = "open"
    /\ socks[s].peer = "up"
    /\ socks[s].sent <= MaxFrames
    /\ IF socks[s].sent = 0
       THEN f = ContactsFrame
       ELSE f \in KnownFrames(socks[s].sent) \cup {BadFrame}
    /\ socks' = [socks EXCEPT ![s].inbox = Append(@, f), ![s].sent = @ + 1]
    /\ UNCHANGED <<connected, socket, fg, loopers, contact_views, heap,
                   shown_views, current_view, log_view, history>>

\* The server closes the connection.
PeerClose(s) ==
    /\ socks[s].st = "open"
    /\ socks[s].peer = "up"
    /\ socks' = [socks EXCEPT ![s].peer = "closed"]
    /\ UNCHANGED <<connected, socket, fg, loopers, contact_views, heap,
                   shown_views, current_view, log_view, history>>

\* The connection breaks (a reset, an unreachable host): unread bytes are lost.
PeerReset(s) ==
    /\ socks[s].st = "open"
    /\ socks[s].peer \in {"up", "closed"}
    /\ socks' = [socks EXCEPT ![s].peer = "reset", ![s].inbox = <<>>]
    /\ UNCHANGED <<connected, socket, fg, loopers, contact_views, heap,
                   shown_views, current_view, log_view, history>>

(* --------------------- /connect: do_connect, connect ------------------- *)

\* do_connect while connected as it would be without the test of the flag:
\* connect is entered and makes a new socket
DoConnectExistsConnects ==
    LET s == Cardinality(UsedSockets) + 1 IN
    /\ fg.pc = "idle"
    /\ Len(history) < MaxHistory
    /\ connected
    /\ s \in Sockets
    /\ socket' = s
    /\ socks' = [socks EXCEPT ![s].st = "open"]
    /\ history' = Append(history, "/connect")
    /\ UNCHANGED <<connected, fg, loopers, contact_views, heap, shown_views,
                   current_view, log_view>>

\* do_connect while connected: one log message
DoConnectExists ==
    /\ fg.pc = "idle"
    /\ Len(history) < MaxHistory
    /\ connected
    /\ log_view' = print_message(log_view, CONNECT_CONNECTION_EXIST)
    /\ history' = Append(history, "/connect")
    /\ UNCHANGED <<connected, socket, socks, fg, loopers, contact_views, heap,
                   shown_views, current_view>>

\* connect with an address or a port that is_valid_ipv4_address / is_valid_port
\* refuses: no socket is created; setup_connection then finds connected False
DoConnectInvalid ==
    /\ fg.pc = "idle"
    /\ Len(history) < MaxHistory
    /\ ~connected
    /\ log_view' = print_message(log_view, ERROR_MESSAGE_INVALID)
    /\ connected' = FALSE
    /\ history' = Append(history, "/connect")
    /\ UNCHANGED <<socket, socks, fg, loopers, contact_views, heap,
                   shown_views, current_view>>

\* connect with valid arguments: a new socket object replaces self.socket, and
\* socket.connect succeeds or raises socket.error with the errno class outcome.
\* "other" (any errno but ETIMEDOUT and ECONNREFUSED, and socket.timeout, whose
\* errno is None) is re-raised: nothing catches it below MainLoop.run.
Connect(outcome) ==
    LET s == Cardinality(UsedSockets) + 1 IN
    /\ fg.pc = "idle"
    /\ Len(history) < MaxHistory
    /\ ~connected
    /\ s \in Sockets
    /\ socket' = s
    /\ CASE outcome = "ok" ->
              /\ socks' = [socks EXCEPT ![s].st = "open"]
              /\ connected' = TRUE
              /\ fg' = Fg("setup")
              /\ UNCHANGED <<log_view, history>>
         [] outcome = "ETIMEDOUT" ->
              /\ socks' = [socks EXCEPT ![s].st = "unconnected"]
              /\ log_view' = print_message(log_view, ERROR_MESSAGE_TIMEOUT)
              /\ connected' = FALSE
              /\ history' = Append(history, "/connect")
              /\ UNCHANGED fg
         [] outcome = "ECONNREFUSED" ->
              /\ socks' = [socks EXCEPT ![s].st = "unconnected"]
              /\ log_view' = print_message(log_view, ERROR_MESSAGE_REFUSED)
              /\ connected' = FALSE
              /\ history' = Append(history, "/connect")
              /\ UNCHANGED fg
         [] OTHER ->
              /\ socks' = [socks EXCEPT ![s].st = "unconnected"]
              /\ fg' = Fg("crashed")
              /\ UNCHANGED <<connected, log_view, history>>
    /\ UNCHANGED <<loopers, contact_views, heap, shown_views, current_view>>

\* setup_connection after connect returned: "if self.connected"
SetupCheck ==
    /\ fg.pc = "setup"
    /\ IF connected
       THEN /\ log_view' = print_message(log_view, MESSAGE_CONNECTING)
            /\ fg' = Fg("snapshot")
            /\ UNCHANGED history
       ELSE /\ fg' = Fg("idle")
            /\ history' = Append(history, "/connect")
            /\ UNCHANGED log_view
    /\ UNCHANGED <<connected, socket, socks, loopers, contact_views, heap,
                   shown_views, current_view>>

\* read_server, the try branch: a frame is returned. Who: the thread's frame
\* variable is set by the caller.
read_server_ok(s) ==
    /\ ReadReady(s)
    /\ socks' = [socks EXCEPT ![s].inbox = Tail(@)]
    /\ UNCHANGED <<connected, log_view>>

\* the except branch as it would be if it left the connected flag alone
read_server_fail_flag_kept(s) ==
    /\ ReadFails(s)
    /\ log_view' = print_message(log_view, ERROR_LOST_CONNECTION)
    /\ UNCHANGED <<connected, socks>>

\* read_server, the except branch: 'Lost connection', connected = False, and
\* the empty message is returned
read_server_fail(s) ==
    /\ ReadFails(s)
    /\ log_view' = print_message(log_view, ERROR_LOST_CONNECTION)
    /\ connected' = FALSE
    /\ UNCHANGED socks

\* initial_data = self.read_server()
SnapshotRead ==
    /\ fg.pc = "snapshot"
    /\ read_server_ok(socket)
    /\ fg' = [Fg("load") EXCEPT !.data = Head(socks[socket].inbox)]
    /\ UNCHANGED <<socket, loopers, contact_views, heap, shown_views,
                   current_view, history>>

SnapshotReadFail ==
    /\ fg.pc = "snapshot"
    /\ read_server_fail(socket)
    /\ fg' = [Fg("load") EXCEPT !.data = EmptyFrame]
    /\ UNCHANGED <<socket, loopers, contact_views, heap, shown_views,
                   current_view, history>>

\* JSONHelper.setup_contact_views: contact_views[view_id] = a new ContactView
\* for every contact of the initial data
setup_contact_views(cv, sv) ==
    [x \in DOMAIN cv \cup DOMAIN SnapshotNames |->
        IF x \in DOMAIN SnapshotNames THEN NewRef(x, sv) ELSE cv[x]]

LoadSnapshot ==
    /\ fg.pc = "load"
    /\ fg.data.kind = "contacts"
    /\ contact_views' = setup_contact_views(contact_views, shown_views)
    /\ heap' = Collect(
          [r \in Refs |->
              IF r[1] \in DOMAIN SnapshotNames /\ r = NewRef(r[1], shown_views)
              THEN ContactView(r[1], SnapshotNames[r[1]]) ELSE heap[r]],
          contact_views', shown_views)
    /\ fg' = Fg("start")
    /\ UNCHANGED <<connected, socket, socks, loopers, shown_views,
                   current_view, log_view, history>>

\* json.loads of the empty message read_server returns on failure, or of a
\* payload that is no contact list, raises; setup_connection catches nothing
LoadSnapshotRaises ==
    /\ fg.pc = "load"
    /\ fg.data.kind # "contacts"
    /\ fg' = Fg("crashed")
    /\ UNCHANGED <<connected, socket, socks, loopers, contact_views, heap,
                   shown_views, current_view, log_view, history>>

\* self.read_looper = threading.Thread(target=self.read_loop); start()
StartLoop ==
    /\ fg.pc = "start"
    /\ loopers' = [loopers EXCEPT ![socket] = Looper("while")]
    /\ fg' = Fg("views")
    /\ UNCHANGED <<connected, socket, socks, contact_views, heap,
                   shown_views, current_view, log_view, history>>

\* MainWindow.init_views(log_view)
init_views == <<[view_id |-> LOG_VIEW_ID, ref |-> LogRef]>>

\* the end of setup_connection: the views are reset, 'Connected to' is logged
InitViews ==
    /\ fg.pc = "views"
    /\ shown_views' = init_views
    /\ current_view' = LOG_VIEW_ID
    /\ heap' = Collect(heap, contact_views, shown_views')
    /\ log_view' = print_message(log_view, MESSAGE_ONCONNECT)
    /\ fg' = Fg("idle")
    /\ history' = Append(history, "/connect")
    /\ UNCHANGED <<connected, socket, socks, loopers, contact_views>>

(* ------------------------------ read_loop ------------------------------ *)

\* "while self.connected": enter read_server on self.socket, or leave the
\* loop, refresh the divider and return
LoopTest(t) ==
    /\ loopers[t].pc = "while"
    /\ loopers' = [loopers EXCEPT ![t] =
          IF connected THEN [Looper("recv") EXCEPT !.s = socket]
          ELSE Looper("done")]
    /\ UNCHANGED <<connected, socket, socks, fg, contact_views, heap,
                   shown_views, current_view, log_view, history>>

\* json_message = self.read_server(), a frame
LoopRead(t) ==
    /\ loopers[t].pc = "recv"
    /\ read_server_ok(loopers[t].s)
    /\ loopers' = [loopers EXCEPT ![t] =
          [Looper("route") EXCEPT !.frame = Head(socks[loopers[t].s].inbox)]]
    /\ UNCHANGED <<socket, fg, contact_views, heap, shown_views,
                   current_view, history>>

\* json_message = self.read_server(), the empty message: back to the loop test
LoopReadFail(t) ==
    /\ loopers[t].pc = "recv"
    /\ read_server_fail(loopers[t].s)
    /\ loopers' = [loopers EXCEPT ![t] = [Looper("while") EXCEPT !.frame = EmptyFrame]]
    /\ UNCHANGED <<socket, fg, contact_views, heap, shown_views,
                   current_view, history>>

\* JSONHelper.json_to_view_message: the sender's name is 'Me' for OUTBOX, the
\* registry's display name for a known contact, the id otherwise
json_to_view_message(f, cv, h) ==
    ViewMessage(f.body, f.id,
        IF f.type = TYPE_OUTGOING THEN USER_DISPLAY_NAME
        ELSE IF f.id \in DOMAIN cv THEN h[cv[f.id]].display_name ELSE f.id,
        f.type)

\* receive_message up to "if related_view_id not in state.contact_views"
Route(t) ==
    /\ loopers[t].pc = "route"
    /\ loopers[t].frame.kind = "msg"
    /\ loopers' = [loopers EXCEPT ![t] =
          [Looper(IF loopers[t].frame.id \in DOMAIN contact_views
                  THEN "append" ELSE "create")
             EXCEPT !.vm = json_to_view_message(loopers[t].frame, contact_views, heap)]]
    /\ UNCHANGED <<connected, socket, socks, fg, contact_views, heap,
                   shown_views, current_view, log_view, history>>

\* json.loads raises ValueError, or a key is missing (KeyError): read_loop has
\* no handler, the exception ends the thread
RouteRaises(t) ==
    /\ loopers[t].pc = "route"
    /\ loopers[t].frame.kind # "msg"
    /\ loopers' = [loopers EXCEPT ![t] = Looper("raised")]
    /\ UNCHANGED <<connected, socket, socks, fg, contact_views, heap,
                   shown_views, current_view, log_view, history>>

\* state.contact_views[id] = ContactView(id, id, id, [])
CreateContact(t) ==
    LET id == loopers[t].vm.related_view_id
        r == NewRef(id, shown_views) IN
    /\ loopers[t].pc = "create"
    /\ contact_views' = Put(contact_views, id, r)
    /\ heap' = Collect([heap EXCEPT ![r] = ContactView(id, id)],
                       contact_views', shown_views)
    /\ loopers' = [loopers EXCEPT ![t].pc = "append", ![t].created = TRUE]
    /\ UNCHANGED <<connected, socket, socks, fg, shown_views, current_view,
                   log_view, history>>

\* the test as it would be if MAX_VIEWS counted the log view too
add_new_view_ok_strict(sv) == Len(sv) < MAX_VIEWS

\* MainWindow.add_new_view: the view is added unless the views are maxed out
add_new_view_ok(sv) == Len(sv) <= MAX_VIEWS

\* the rest of receive_message as it would be if the message were put at the
\* head of the log
AppendMessageAtHead(t) ==
    LET vm == loopers[t].vm
        id == vm.related_view_id
        r == contact_views[id]
        absent == id \notin ShownKeys(shown_views) IN
    /\ loopers[t].pc = "append"
    /\ shown_views' =
          IF absent /\ add_new_view_ok(shown_views)
          THEN Append(shown_views, [view_id |-> id, ref |-> r])
          ELSE shown_views
    /\ heap' = Collect([heap EXCEPT ![r].content = <<vm>> \o @],
                       contact_views, shown_views')
    /\ log_view' =
          IF absent /\ ~add_new_view_ok(shown_views)
          THEN print_message(log_view, ERROR_MAX_VIEWS) ELSE log_view
    /\ loopers' = [loopers EXCEPT ![t] = Looper("while")]
    /\ UNCHANGED <<connected, socket, socks, fg, contact_views,
                   current_view, history>>

\* contact_view.add_message(view_message); the view is shown if it was not;
\* (notify and draw_screen change no state of the session)
AppendMessage(t) ==
    LET vm == loopers[t].vm
        id == vm.related_view_id
        r == contact_views[id]
        absent == id \notin ShownKeys(shown_views) IN
    /\ loopers[t].pc = "append"
    /\ shown_views' =
          IF absent /\ add_new_view_ok(shown_views)
          THEN Append(shown_views, [view_id |-> id, ref |-> r])
          ELSE shown_views
    /\ heap' = Collect(add_message(heap, r, vm), contact_views, shown_views')
    /\ log_view' =
          IF absent /\ ~add_new_view_ok(shown_views)
          THEN print_message(log_view, ERROR_MAX_VIEWS) ELSE log_view
    /\ loopers' = [loopers EXCEPT ![t] = Looper("while")]
    /\ UNCHANGED <<connected, socket, socks, fg, contact_views,
                   current_view, history>>

\* The same up to ConnectionHandler.notify, for an INBOX message when
\* notification.show() raises (GLib.Error: no notification daemon answers):
\* the message is appended and the view shown, draw_screen is not reached,
\* and the exception, which read_loop does not handle, ends the thread
AppendMessageNotifyRaises(t) ==
    LET vm == loopers[t].vm
        id == vm.related_view_id
        r == contact_views[id]
        absent == id \notin ShownKeys(shown_views) IN
    /\ loopers[t].pc = "append"
    /\ vm.message_type = TYPE_INCOMING
    /\ shown_views' =
          IF absent /\ add_new_view_ok(shown_views)
          THEN Append(shown_views, [view_id |-> id, ref |-> r])
          ELSE shown_views
    /\ heap' = Collect(add_message(heap, r, vm), contact_views, shown_views')
    /\ log_view' =
          IF absent /\ ~add_new_view_ok(shown_views)
          THEN print_message(log_view, ERROR_MAX_VIEWS) ELSE log_view
    /\ loopers' = [loopers EXCEPT ![t] = Looper("raised")]
    /\ UNCHANGED <<connected, socket, socks, fg, contact_views,
                   current_view, history>>

(* --------------------- /disconnect, /msg, the views -------------------- *)

\* socket.shutdown(SHUT_RDWR) raises ENOTCONN once the connection was reset
shutdown_raises(s) == socks[s].peer = "reset"

\* do_disconnect as it would be without its test of the flag: shutdown and
\* close on every call (an AttributeError when no socket was ever made)
DoDisconnectUnguarded ==
    /\ fg.pc = "idle"
    /\ Len(history) < MaxHistory
    /\ connected' = FALSE
    /\ IF socket = NoSocket \/ shutdown_raises(socket)
       THEN /\ fg' = Fg("crashed")
            /\ UNCHANGED <<socks, history>>
       ELSE /\ socks' = [socks EXCEPT ![socket].st = "closed",
                                      ![socket].closes = @ + 1]
            /\ history' = Append(history, "/disconnect")
            /\ UNCHANGED fg
    /\ UNCHANGED <<socket, loopers, contact_views, heap, shown_views,
                   current_view, log_view>>

\* do_disconnect: the flag, then shutdown and close of self.socket; nothing
\* when not connected (parse_command then records the command)
DoDisconnect ==
    /\ fg.pc = "idle"
    /\ Len(history) < MaxHistory
    /\ IF connected
       THEN /\ connected' = FALSE
            /\ IF shutdown_raises(socket)
               THEN /\ fg' = Fg("crashed")
                    /\ UNCHANGED <<socks, history>>
               ELSE /\ socks' = [socks EXCEPT ![socket].st = "closed",
                                              ![socket].closes = @ + 1]
                    /\ history' = Append(history, "/disconnect")
                    /\ UNCHANGED fg
       ELSE /\ history' = Append(history, "/disconnect")
            /\ UNCHANGED <<connected, socks, fg>>
    /\ UNCHANGED <<socket, loopers, contact_views, heap, shown_views,
                   current_view, log_view>>

\* do_quit: exit() raises SystemExit, which ends MainLoop.run; the flag and
\* the socket are not touched (the interpreter then waits for the read_loop
\* threads, which are not daemon threads)
DoQuit ==
    /\ fg.pc = "idle"
    /\ fg' = Fg("exited")
    /\ UNCHANGED <<connected, socket, socks, loopers, contact_views, heap,
                   shown_views, current_view, log_view, history>>

\* InputHandler.ctrl_c_quit -> shutdown(): the SIGINT handler runs on the main
\* thread wherever it is; when connected the flag is cleared and the socket
\* shut down and closed; ExitMainLoop (or the socket.error of shutdown on a
\* reset connection) then leaves the handler that was running
shutdown ==
    /\ fg.pc \notin {"crashed", "exited"}
    /\ IF connected
       THEN /\ connected' = FALSE
            /\ IF shutdown_raises(socket)
               THEN /\ fg' = Fg("crashed")
                    /\ UNCHANGED socks
               ELSE /\ socks' = [socks EXCEPT ![socket].st = "closed",
                                              ![socket].closes = @ + 1]
                    /\ fg' = Fg("exited")
       ELSE /\ fg' = Fg("exited")
            /\ UNCHANGED <<connected, socks>>
    /\ UNCHANGED <<socket, loopers, contact_views, heap, shown_views,
                   current_view, log_view, history>>

\* str.lower on the names of the model
Lower(str) == IF str = "Alice" THEN "alice" ELSE str
\* re.search('[a-zA-Z]', name) is None
NoLetters(name) == name \in ContactIds

\* dict item assignment on the OrderedDict: a new key goes last, an old key
\* keeps its place
PutShown(sv, view_id, r) ==
    IF view_id \in ShownKeys(sv)
    THEN [i \in DOMAIN sv |->
            IF sv[i].view_id = view_id THEN [view_id |-> view_id, ref |-> r] ELSE sv[i]]
    ELSE Append(sv, [view_id |-> view_id, ref |-> r])

\* do_msg while not connected
DoMsgDisconnected ==
    /\ fg.pc = "idle"
    /\ Len(history) < MaxHistory
    /\ ~connected
    /\ log_view' = print_message(log_view, MSG_DISCONNECTED)
    /\ history' = Append(history, "/msg")
    /\ UNCHANGED <<connected, socket, socks, fg, loopers, contact_views, heap,
                   shown_views, current_view>>

\* do_msg, a contact's display name matches: its view is shown if it was not
\* (the names of the model are distinct, so one contact matches at most)
DoMsgMatched(name) ==
    LET matched == {id \in DOMAIN contact_views :
                       Lower(heap[contact_views[id]].display_name) = Lower(name)} IN
    /\ fg.pc = "idle"
    /\ Len(history) < MaxHistory
    /\ connected
    /\ matched # {}
    /\ LET id == CHOOSE x \in matched : TRUE
           absent == id \notin ShownKeys(shown_views) IN
       /\ shown_views' =
             IF absent /\ add_new_view_ok(shown_views)
             THEN PutShown(shown_views, id, contact_views[id]) ELSE shown_views
       /\ log_view' =
             IF absent /\ ~add_new_view_ok(shown_views)
             THEN print_message(log_view, ERROR_MAX_VIEWS) ELSE log_view
    /\ history' = Append(history, "/msg")
    /\ UNCHANGED <<connected, socket, socks, fg, loopers, contact_views, heap,
                   current_view>>

\* do_msg, no contact matches: a name without letters becomes a new contact,
\* whose view is added and focused (switch_view raises KeyError when the view
\* was not added and none of that id is shown); any other name is refused
DoMsgUnmatched(name) ==
    LET matched == {id \in DOMAIN contact_views :
                       Lower(heap[contact_views[id]].display_name) = Lower(name)}
        r == NewRef(name, shown_views) IN
    /\ fg.pc = "idle"
    /\ Len(history) < MaxHistory
    /\ connected
    /\ matched = {}
    /\ IF NoLetters(name)
       THEN /\ contact_views' = Put(contact_views, name, r)
            /\ shown_views' =
                  IF add_new_view_ok(shown_views)
                  THEN PutShown(shown_views, name, r) ELSE shown_views
            /\ heap' = Collect([heap EXCEPT ![r] = ContactView(name, name)],
                               contact_views', shown_views')
            /\ log_view' =
                  IF add_new_view_ok(shown_views) THEN log_view
                  ELSE print_message(log_view, ERROR_MAX_VIEWS)
            /\ IF name \in ShownKeys(shown_views')
               THEN /\ current_view' = name
                    /\ history' = Append(history, "/msg")
                    /\ UNCHANGED fg
               ELSE /\ fg' = Fg("crashed")
                    /\ UNCHANGED <<current_view, history>>
       ELSE /\ log_view' = print_message(log_view, MSG_INVALID_CONTACT)
            /\ history' = Append(history, "/msg")
            /\ UNCHANGED <<fg, contact_views, heap, shown_views, current_view>>
    /\ UNCHANGED <<connected, socket, socks, loopers>>

\* InputHandler.handle_view_switch: meta + index focuses the index-th view
SwitchView(view_index) ==
    /\ fg.pc = "idle"
    /\ view_index < Len(shown_views)
    /\ current_view' = shown_views[view_index + 1].view_id
    /\ UNCHANGED <<connected, socket, socks, fg, loopers, contact_views, heap,
                   shown_views, log_view, history>>

\* MainWindow.close_view(current_view): any view but the first is closed and
\* the view before it focused
CloseView ==
    LET i == CHOOSE k \in DOMAIN shown_views : shown_views[k].view_id = current_view IN
    /\ fg.pc = "idle"
    /\ current_view \in ShownKeys(shown_views)
    /\ i > 1
    /\ shown_views' = [k \in 1..(Len(shown_views) - 1) |->
                          IF k < i THEN shown_views[k] ELSE shown_views[k + 1]]
    /\ current_view' = shown_views[i - 1].view_id
    /\ heap' = Collect(heap, contact_views, shown_views')
    /\ UNCHANGED <<connected, socket, socks, fg, loopers, contact_views,
                   log_view, history>>

(* ----------------------------- send_message --------------------------- *)

Min(a, b) == IF a < b THEN a ELSE b

\* message[lo:hi] of the user's input line
Slice(lo, hi) == "input[" \o ToString(lo) \o ":" \o ToString(hi) \o "]"

\* send_message's message_chunk for an input of len characters
message_chunk(len) ==
    IF len > MAX_MESSAGE_LEN
    THEN [k \in 1..((len + MAX_MESSAGE_LEN - 1) \div MAX_MESSAGE_LEN) |->
            Slice((k - 1) * MAX_MESSAGE_LEN, Min(k * MAX_MESSAGE_LEN, len))]
    ELSE <<Slice(0, len)>>

\* range(start, stop, step) as the list of its values
RECURSIVE range(_, _, _)
range(start, stop, step) ==
    IF start >= stop THEN <<>> ELSE <<start>> \o range(start + step, stop, step)

\* message[lo:hi] of a text given as the sequence of its characters: Python
\* clamps hi to the length
slice(message, lo, hi) == SubSeq(message, lo + 1, Min(hi, Len(message)))

\* the chunking as it would be if only whole chunks were cut and a shorter
\* tail dropped
chunk_dropping_tail(message, size) ==
    [k \in 1..(Len(message) \div size) |->
        slice(message, (k - 1) * size, k * size)]

\* send_message's message_chunk for the text message and the chunk size size
\* (MAX_MESSAGE_LEN in the program)
chunk(message, size) ==
    IF Len(message) > size
    THEN LET starts == range(0, Len(message), size) IN
         [k \in DOMAIN starts |-> slice(message, starts[k], starts[k] + size)]
    ELSE <<message>>

\* the messages as they would be built if they took the log view's id
\* whichever view is focused
view_message_chunk_to_log(message_chunks, view_id) ==
    [k \in DOMAIN message_chunks |->
        ViewMessage(message_chunks[k], LOG_VIEW_ID, USER_DISPLAY_NAME, TYPE_OUTGOING)]

\* send_message's view_message_chunk
view_message_chunk(message_chunks, view_id) ==
    [k \in DOMAIN message_chunks |->
        ViewMessage(message_chunks[k], view_id, USER_DISPLAY_NAME, TYPE_OUTGOING)]

\* JSONHelper.view_message_to_json: the frame's payload, by its fields
view_message_to_json(view_message) ==
    Frame("msg", view_message.related_view_id, view_message.message_type,
          view_message.body)

\* View.add_messages on the object r (the log view's content is log_view)
add_messages(h, r, view_messages) ==
    [h EXCEPT ![r].content = @ \o view_messages]

\* handle_input, a line that is no command: sent when connected and the
\* focused view is not the log view; send_message builds the ViewMessages
SendMessage(len) ==
    /\ fg.pc = "idle"
    /\ connected
    /\ current_view \in ShownKeys(shown_views)
    /\ ShownRef(shown_views, current_view) # LogRef
    /\ Len(heap[ShownRef(shown_views, current_view)].content) < MaxContent
    /\ fg' = [Fg("sending") EXCEPT
          !.chunks = view_message_chunk(message_chunk(len), current_view),
          !.i = 1]
    /\ UNCHANGED <<connected, socket, socks, loopers, contact_views, heap,
                   shown_views, current_view, log_view, history>>

\* socket.sendall succeeds: on a healthy connection, and possibly once more
\* after the peer closed
write_ok(s) == socks[s].st = "open" /\ socks[s].peer \in {"up", "closed"}
\* socket.sendall raises socket.error (EPIPE, ECONNRESET, EBADF)
write_fails(s) == socks[s].st # "open" \/ socks[s].peer \in {"closed", "reset"}

\* write_server, the except branch: 'Lost connection', connected = False
write_server_fail ==
    /\ log_view' = print_message(log_view, ERROR_LOST_CONNECTION)
    /\ connected' = FALSE

\* the write loop as it would be if it went through the chunks last to first
WriteChunkReversed ==
    /\ fg.pc = "sending"
    /\ fg.i <= Len(fg.chunks)
    /\ write_ok(socket)
    /\ fg' = [fg EXCEPT !.i = @ + 1,
                        !.attempts = Append(@,
                            [json |-> view_message_to_json(fg.chunks[Len(fg.chunks) + 1 - fg.i]),
                             ok |-> TRUE])]
    /\ UNCHANGED <<connected, socket, socks, loopers, contact_views, heap,
                   shown_views, current_view, log_view, history>>

\* the write loop, one chunk written, then time.sleep(WRITE_PAUSE_TIME)
WriteChunk ==
    /\ fg.pc = "sending"
    /\ fg.i <= Len(fg.chunks)
    /\ write_ok(socket)
    /\ fg' = [fg EXCEPT !.i = @ + 1,
                        !.attempts = Append(@, [json |-> view_message_to_json(fg.chunks[fg.i]),
                                                ok |-> TRUE])]
    /\ UNCHANGED <<connected, socket, socks, loopers, contact_views, heap,
                   shown_views, current_view, log_view, history>>

\* the write loop, one chunk whose write failed, then the sleep; the loop
\* goes on to the next chunk. A write that fails after the peer closed has
\* met the peer's reset: the connection is broken from then on.
WriteChunkFail ==
    /\ fg.pc = "sending"
    /\ fg.i <= Len(fg.chunks)
    /\ write_fails(socket)
    /\ write_server_fail
    /\ socks' = IF socks[socket].st = "open" /\ socks[socket].peer = "closed"
                THEN [socks EXCEPT ![socket].peer = "reset", ![socket].inbox = <<>>]
                ELSE socks
    /\ fg' = [fg EXCEPT !.i = @ + 1,
                        !.attempts = Append(@, [json |-> view_message_to_json(fg.chunks[fg.i]),
                                                ok |-> FALSE])]
    /\ UNCHANGED <<socket, loopers, contact_views, heap,
                   shown_views, current_view, history>>

\* the end of send_message as it would be if only the chunks whose write
\* succeeded were added to the view
SendDoneWrittenOnly ==
    /\ fg.pc = "sending"
    /\ fg.i > Len(fg.chunks)
    /\ heap' = add_messages(heap, ShownRef(shown_views, current_view),
                            SelectSeq(fg.chunks,
                                LAMBDA vm : \E k \in DOMAIN fg.attempts :
                                    /\ fg.attempts[k].ok
                                    /\ fg.attempts[k].json = view_message_to_json(vm)))
    /\ fg' = Fg("idle")
    /\ UNCHANGED <<connected, socket, socks, loopers, contact_views,
                   shown_views, current_view, log_view, history>>

\* after the loop: shown_views[current_view].add_messages(view_message_chunk)
SendDone ==
    /\ fg.pc = "sending"
    /\ fg.i > Len(fg.chunks)
    /\ heap' = add_messages(heap, ShownRef(shown_views, current_view), fg.chunks)
    /\ fg' = Fg("idle")
    /\ UNCHANGED <<connected, socket, socks, loopers, contact_views,
                   shown_views, current_view, log_view, history>>

(* --------------------------- the specification ------------------------- *)

\* every step but the server's writes and the creation of a contact on receipt
Steps ==
    \/ \E s \in Sockets : PeerClose(s)
    \/ \E s \in Sockets : PeerReset(s)
    \/ DoConnectExists
    \/ DoConnectInvalid
    \/ \E outcome \in ConnectOutcomes : Connect(outcome)
    \/ SetupCheck
    \/ SnapshotRead
    \/ SnapshotReadFail
    \/ LoadSnapshot
    \/ LoadSnapshotRaises
    \/ StartLoop
    \/ InitViews
    \/ \E t \in Sockets : LoopTest(t)
    \/ \E t \in Sockets : LoopRead(t)
    \/ \E t \in Sockets : LoopReadFail(t)
    \/ \E t \in Sockets : Route(t)
    \/ \E t \in Sockets : RouteRaises(t)
    \/ \E t \in Sockets : AppendMessage(t)
    \/ \E t \in Sockets : AppendMessageNotifyRaises(t)
    \/ DoDisconnect
    \/ DoQuit
    \/ shutdown
    \/ DoMsgDisconnected
    \/ \E name \in MsgArgs : DoMsgMatched(name)
    \/ \E name \in MsgArgs : DoMsgUnmatched(name)
    \/ \E view_index \in 0..MAX_VIEWS : SwitchView(view_index)
    \/ CloseView
    \/ \E len \in TextLens : SendMessage(len)
    \/ WriteChunk
    \/ WriteChunkFail
    \/ SendDone

\* the server sends messages from a number that is not in the contact list
Next ==
    \/ \E s \in Sockets :
          \E f \in {ContactsFrame, BadFrame} \cup MessageFrames(socks[s].sent) :
             ServerSend(s, f)
    \/ \E t \in Sockets : CreateContact(t)
    \/ Steps

Spec == Init /\ [][Next]_vars

\* the server sends messages from a contact of the contact list: the router
\* finds the id in the registry every time
KnownNext ==
    \/ \E s \in Sockets :
          \E f \in {ContactsFrame, BadFrame} \cup KnownFrames(socks[s].sent) :
             ServerSendKnown(s, f)
    \/ Steps

KnownSpec == Init /\ [][KnownNext]_vars

\* A read_loop thread that can take a step takes it: the operating system
\* schedules every runnable thread. Nothing obliges the user or the server.
LooperStep(t) ==
    \/ LoopTest(t) \/ LoopRead(t) \/ LoopReadFail(t) \/ Route(t)
    \/ RouteRaises(t) \/ CreateContact(t) \/ AppendMessage(t)
    \/ AppendMessageNotifyRaises(t)

\* The main loop runs the handler it is in to its end (it can block in the
\* snapshot read); when the next command comes is the user's choice.
FgStep ==
    \/ SetupCheck \/ SnapshotRead \/ SnapshotReadFail \/ LoadSnapshot
    \/ LoadSnapshotRaises \/ StartLoop \/ InitViews
    \/ WriteChunk \/ WriteChunkFail \/ SendDone

FairSpec ==
    /\ Spec
    /\ WF_vars(FgStep)
    /\ \A t \in Sockets : WF_vars(LooperStep(t))

(* ------------- send_message's chunking as a function of the text ------ *)

\* Texts: every sequence over two characters up to MaxText, with every chunk
\* size up to MaxChunk; and, with the program's MAX_MESSAGE_LEN, texts of the
\* lengths around one chunk and of three chunks (characters cycle over seven
\* values, so no two chunks of such a text are equal)
SmallTexts == UNION {[1..n -> {0, 1}] : n \in 1..MaxText}
LongText(n) == [i \in 1..n |-> i % 7]
ChunkInputs ==
    (SmallTexts \X (1..MaxChunk))
        \cup {<<LongText(n), MAX_MESSAGE_LEN>> :
                 n \in {MAX_MESSAGE_LEN - 1, MAX_MESSAGE_LEN,
                        MAX_MESSAGE_LEN + 1, 3 * MAX_MESSAGE_LEN}}

\* the main thread enters send_message(message) with "777" focused and has
\* built view_message_chunk
ChunkCall(message, size) ==
    /\ fg.pc = "idle"
    /\ fg' = [Fg("chunked") EXCEPT
          !.data = [message |-> message, size |-> size],
          !.chunks = view_message_chunk(chunk(message, size), "777")]
    /\ UNCHANGED <<connected, socket, socks, loopers, contact_views, heap,
                   shown_views, current_view, log_view, history>>

\* the call is over; the next text can be sent
ChunkReturn ==
    /\ fg.pc = "chunked"
    /\ fg' = Fg("idle")
    /\ UNCHANGED <<connected, socket, socks, loopers, contact_views, heap,
                   shown_views, current_view, log_view, history>>

ChunkNext ==
    \/ \E input \in ChunkInputs : ChunkCall(input[1], input[2])
    \/ ChunkReturn

ChunkSpec == Init /\ [][ChunkNext]_vars

(* ------------- write_server, one sendall call at a time ---------------- *)

\* what one sendall call writes: the length prefix of a frame, or its payload
Piece(json, part) == [json |-> json, part |-> part]

\* self.socket.sendall(struct.pack(...)) returns: the prefix is written
WritePrefix ==
    /\ fg.pc = "sending"
    /\ fg.i <= Len(fg.chunks)
    /\ write_ok(socket)
    /\ socks' = [socks EXCEPT ![socket].out =
          Append(@, Piece(view_message_to_json(fg.chunks[fg.i]), "prefix"))]
    /\ fg' = [fg EXCEPT !.pc = "payload"]
    /\ UNCHANGED <<connected, socket, loopers, contact_views, heap,
                   shown_views, current_view, log_view, history>>

\* the first sendall raises: the except branch, the payload is not tried
\* (a sendall that raises is taken to have written nothing)
WritePrefixFail ==
    /\ fg.pc = "sending"
    /\ fg.i <= Len(fg.chunks)
    /\ write_fails(socket)
    /\ write_server_fail
    /\ socks' = IF socks[socket].st = "open" /\ socks[socket].peer = "closed"
                THEN [socks EXCEPT ![socket].peer = "reset", ![socket].inbox = <<>>]
                ELSE socks
    /\ fg' = [fg EXCEPT !.i = @ + 1,
                        !.attempts = Append(@, [json |-> view_message_to_json(fg.chunks[fg.i]),
                                                ok |-> FALSE])]
    /\ UNCHANGED <<socket, loopers, contact_views, heap,
                   shown_views, current_view, history>>

\* the second sendall as it would be if it returned without writing
WritePayloadNothing ==
    /\ fg.pc = "payload"
    /\ write_ok(socket)
    /\ fg' = [fg EXCEPT !.pc = "sending", !.i = @ + 1,
                        !.attempts = Append(@, [json |-> view_message_to_json(fg.chunks[fg.i]),
                                                ok |-> TRUE])]
    /\ UNCHANGED <<connected, socket, socks, loopers, contact_views, heap,
                   shown_views, current_view, log_view, history>>

\* self.socket.sendall(message.encode('utf-8')) returns: the payload is
\* written, write_server returns, then time.sleep(WRITE_PAUSE_TIME)
WritePayload ==
    /\ fg.pc = "payload"
    /\ write_ok(socket)
    /\ socks' = [socks EXCEPT ![socket].out =
          Append(@, Piece(view_message_to_json(fg.chunks[fg.i]), "payload"))]
    /\ fg' = [fg EXCEPT !.pc = "sending", !.i = @ + 1,
                        !.attempts = Append(@, [json |-> view_message_to_json(fg.chunks[fg.i]),
                                                ok |-> TRUE])]
    /\ UNCHANGED <<connected, socket, loopers, contact_views, heap,
                   shown_views, current_view, log_view, history>>

\* the second sendall raises: the except branch; the loop goes on
WritePayloadFail ==
    /\ fg.pc = "payload"
    /\ write_fails(socket)
    /\ write_server_fail
    /\ socks' = IF socks[socket].st = "open" /\ socks[socket].peer = "closed"
                THEN [socks EXCEPT ![socket].peer = "reset", ![socket].inbox = <<>>]
                ELSE socks
    /\ fg' = [fg EXCEPT !.pc = "sending", !.i = @ + 1,
                        !.attempts = Append(@, [json |-> view_message_to_json(fg.chunks[fg.i]),
                                                ok |-> FALSE])]
    /\ UNCHANGED <<socket, loopers, contact_views, heap,
                   shown_views, current_view, history>>

\* A session in which the user opens conversations and sends texts, the
\* connection can break at any moment and the user can interrupt the
\* program; the receive thread runs beside the sends.
WireNext ==
    \/ Connect("ok")
    \/ \E s \in Sockets : ServerSend(s, ContactsFrame)
    \/ \E s \in Sockets : PeerClose(s)
    \/ \E s \in Sockets : PeerReset(s)
    \/ SetupCheck
    \/ SnapshotRead
    \/ SnapshotReadFail
    \/ LoadSnapshot
    \/ LoadSnapshotRaises
    \/ StartLoop
    \/ InitViews
    \/ \E t \in Sockets : LoopTest(t)
    \/ \E t \in Sockets : LoopReadFail(t)
    \/ shutdown
    \/ \E name \in MsgArgs : DoMsgMatched(name)
    \/ \E name \in MsgArgs : DoMsgUnmatched(name)
    \/ \E view_index \in 0..MAX_VIEWS : SwitchView(view_index)
    \/ \E len \in TextLens : SendMessage(len)
    \/ WritePrefix
    \/ WritePrefixFail
    \/ WritePayload
    \/ WritePayloadFail
    \/ SendDone

WireSpec == Init /\ [][WireNext]_vars

(* ------------- the wire format: JSON text, bytes, prefix --------------- *)

\* Texts are sequences of code points, byte strings sequences of 0..255.
\* The keys of a message, as text
JSON_MESSAGE_TIME_KEY == <<116, 105, 109, 101>>      \* 'time'
JSON_MESSAGE_BODY_KEY == <<98, 111, 100, 121>>      \* 'body'
JSON_MESSAGE_ID_KEY ==
    <<114, 101, 108, 97, 116, 101, 100, 67, 111, 110, 116, 97, 99, 116, 73, 100>>                            \* 'relatedContactId'
JSON_MESSAGE_TYPE_KEY ==
    <<115, 109, 115, 77, 101, 115, 115, 97, 103, 101, 84, 121, 112, 101>>                            \* 'smsMessageType'
TYPE_OUTGOING_TEXT == <<79, 85, 84, 66, 79, 88>>       \* 'OUTBOX'
TYPE_INCOMING_TEXT == <<73, 78, 66, 79, 88>>        \* 'INBOX'

\* a ViewMessage with its message_time; sender_name plays no part on the wire
TimedMessage(message_time, body, related_view_id, message_type) ==
    [message_time |-> message_time, body |-> body,
     related_view_id |-> related_view_id, message_type |-> message_type]

\* two decimal digits, zero padded (%H, %M, %S, %I of strftime)
TwoDigits(n) == <<48 + (n \div 10), 48 + (n % 10)>>

\* datetime.time(h, m, s).strftime('%H:%M:%S'), clock a triple <<h, m, s>>
strftime(clock) ==
    TwoDigits(clock[1]) \o <<58>> \o TwoDigits(clock[2]) \o <<58>> \o TwoDigits(clock[3])

\* the same time of day as the server writes it, '%I:%M:%S %p'
remote_strftime(clock) ==
    TwoDigits(IF clock[1] % 12 = 0 THEN 12 ELSE clock[1] % 12)
        \o <<58>> \o TwoDigits(clock[2]) \o <<58>> \o TwoDigits(clock[3])
        \o <<32>> \o (IF clock[1] < 12 THEN <<65, 77>> ELSE <<80, 77>>)

\* one hexadecimal digit, lower case, and '\uXXXX'
HexDigit(d) == IF d < 10 THEN 48 + d ELSE 87 + d
UEscape(n) ==
    <<92, 117, HexDigit(n \div 4096), HexDigit((n \div 256) % 16),
      HexDigit((n \div 16) % 16), HexDigit(n % 16)>>

\* the character as json.dumps(..., ensure_ascii=False) would write it
EscapeCharKeepUnicode(c) ==
    CASE c = 34 -> <<92, 34>>
      [] c = 92 -> <<92, 92>>
      [] c = 10 -> <<92, 110>>
      [] c = 13 -> <<92, 114>>
      [] c = 9 -> <<92, 116>>
      [] c = 8 -> <<92, 98>>
      [] c = 12 -> <<92, 102>>
      [] c < 32 -> UEscape(c)
      [] OTHER -> <<c>>

\* json.encoder.py_encode_basestring_ascii on one character: json.dumps is
\* called with its defaults, so ensure_ascii is on
EscapeChar(c) ==
    CASE c = 34 -> <<92, 34>>
      [] c = 92 -> <<92, 92>>
      [] c = 10 -> <<92, 110>>
      [] c = 13 -> <<92, 114>>
      [] c = 9 -> <<92, 116>>
      [] c = 8 -> <<92, 98>>
      [] c = 12 -> <<92, 102>>
      [] c \in 32..126 /\ c \notin {34, 92} -> <<c>>
      [] c >= 65536 ->
            UEscape(55296 + ((c - 65536) \div 1024))
                \o UEscape(56320 + ((c - 65536) % 1024))
      [] OTHER -> UEscape(c)

RECURSIVE EscapeText(_)
EscapeText(text) ==
    IF text = <<>> THEN <<>>
    ELSE EscapeChar(Head(text)) \o EscapeText(Tail(text))

\* a JSON string literal
json_string(text) == <<34>> \o EscapeText(text) \o <<34>>

\* json.dumps of a dict of strings, given as its items in insertion order:
\* '{"k": "v", "k": "v"}'
RECURSIVE json_members(_)
json_members(items) ==
    IF items = <<>> THEN <<>>
    ELSE json_string(items[1][1]) \o <<58, 32>> \o json_string(items[1][2])
            \o (IF Len(items) > 1 THEN <<44, 32>> ELSE <<>>)
            \o json_members(Tail(items))

json_dumps(items) == <<123>> \o json_members(items) \o <<125>>

\* JSONHelper.view_message_to_json, down to the text
view_message_to_json_text(view_message) ==
    json_dumps(<< <<JSON_MESSAGE_TIME_KEY, view_message.message_time>>,
                  <<JSON_MESSAGE_BODY_KEY, view_message.body>>,
                  <<JSON_MESSAGE_ID_KEY, view_message.related_view_id>>,
                  <<JSON_MESSAGE_TYPE_KEY, view_message.message_type>> >>)

\* str.encode('utf-8') on one character
Utf8Char(c) ==
    CASE c < 128 -> <<c>>
      [] c >= 128 /\ c < 2048 -> <<192 + (c \div 64), 128 + (c % 64)>>
      [] c >= 2048 /\ c < 65536 ->
            <<224 + (c \div 4096), 128 + ((c \div 64) % 64), 128 + (c % 64)>>
      [] OTHER ->
            <<240 + (c \div 262144), 128 + ((c \div 4096) % 64),
              128 + ((c \div 64) % 64), 128 + (c % 64)>>

RECURSIVE encode_utf8(_)
encode_utf8(text) ==
    IF text = <<>> THEN <<>>
    ELSE Utf8Char(Head(text)) \o encode_utf8(Tail(text))

\* struct.pack('! i', n): four bytes, most significant first
struct_pack(n) ==
    <<(n \div 16777216) % 256, (n \div 65536) % 256, (n \div 256) % 256, n % 256>>

\* the number a receiver reads from the four bytes
struct_unpack(bytes) ==
    bytes[1] * 16777216 + bytes[2] * 65536 + bytes[3] * 256 + bytes[4]

\* the two arguments of write_server's sendall calls
write_server_bytes(message) ==
    [prefix |-> struct_pack(Len(message)), payload |-> encode_utf8(message)]

\* the value of a hexadecimal digit, and of the four at text[i..i+3]
HexValue(c) == IF c \in 48..57 THEN c - 48 ELSE c - 87
Hex4(text, i) ==
    HexValue(text[i]) * 4096 + HexValue(text[i + 1]) * 256
        + HexValue(text[i + 2]) * 16 + HexValue(text[i + 3])

\* json.decoder.py_scanstring from text[i], the character after the opening
\* quote: the string's value and the index after its closing quote
RECURSIVE scanstring(_, _, _)
scanstring(text, i, acc) ==
    IF text[i] = 34 THEN [val |-> acc, next |-> i + 1]
    ELSE IF text[i] # 92 THEN scanstring(text, i + 1, Append(acc, text[i]))
    ELSE IF text[i + 1] # 117 THEN
        scanstring(text, i + 2,
            Append(acc, CASE text[i + 1] = 110 -> 10
                          [] text[i + 1] = 114 -> 13
                          [] text[i + 1] = 116 -> 9
                          [] text[i + 1] = 98 -> 8
                          [] text[i + 1] = 102 -> 12
                          [] OTHER -> text[i + 1]))
    ELSE LET hi == Hex4(text, i + 2) IN
         IF /\ hi \in 55296..56319
            /\ i + 11 <= Len(text)
            /\ text[i + 6] = 92
            /\ text[i + 7] = 117
            /\ Hex4(text, i + 8) \in 56320..57343
         THEN scanstring(text, i + 12,
                  Append(acc, 65536 + (hi - 55296) * 1024 + (Hex4(text, i + 8) - 56320)))
         ELSE scanstring(text, i + 6, Append(acc, hi))

\* json.loads of an object of strings, from the quote at text[i] that opens a
\* key: the dict, as a function from keys to values
RECURSIVE loads_members(_, _, _)
loads_members(text, i, dict) ==
    LET key == scanstring(text, i + 1, <<>>)
        val == scanstring(text, key.next + 3, <<>>)
        more == (key.val :> val.val) @@ dict
    IN  IF text[val.next] = 44 THEN loads_members(text, val.next + 2, more)
        ELSE more

json_loads(text) == loads_members(text, 2, <<>>)

\* the digits at the head of text
RECURSIVE DigitRun(_)
DigitRun(text) ==
    IF text # <<>> /\ Head(text) \in 48..57
    THEN <<Head(text)>> \o DigitRun(Tail(text))
    ELSE <<>>

DigitsValue(digits) ==
    IF Len(digits) = 1 THEN digits[1] - 48
    ELSE (digits[1] - 48) * 10 + (digits[2] - 48)

\* the spaces at the head of text
RECURSIVE SpaceRun(_)
SpaceRun(text) ==
    IF text # <<>> /\ Head(text) = 32 THEN 1 + SpaceRun(Tail(text)) ELSE 0

Drop(text, n) == SubSeq(text, n + 1, Len(text))
UpperCase(c) == IF c \in 97..122 THEN c - 32 ELSE c

\* datetime.strptime(text, '%I:%M:%S %p'): the clock, or raised (ValueError)
\* when the text does not match: an hour 1..12, ':', a minute, ':', a second,
\* white space, AM or PM in either case, and nothing else
strptime12(text) ==
    LET hh == DigitRun(text)
        r1 == Drop(text, Len(hh))
        mm == DigitRun(Drop(r1, 1))
        r2 == Drop(r1, 1 + Len(mm))
        ss == DigitRun(Drop(r2, 1))
        r3 == Drop(r2, 1 + Len(ss))
        sp == SpaceRun(r3)
        ap == Drop(r3, sp)
        matches ==
            /\ Len(hh) \in 1..2 /\ DigitsValue(hh) \in 1..12
            /\ r1 # <<>> /\ Head(r1) = 58
            /\ Len(mm) \in 1..2 /\ DigitsValue(mm) \in 0..59
            /\ r2 # <<>> /\ Head(r2) = 58
            /\ Len(ss) \in 1..2 /\ DigitsValue(ss) \in 0..61
            /\ sp >= 1
            /\ Len(ap) = 2
            /\ UpperCase(ap[1]) \in {65, 80}
            /\ UpperCase(ap[2]) = 77
    IN  IF ~matches THEN [raised |-> TRUE, clock |-> <<0, 0, 0>>]
        ELSE [raised |-> FALSE,
              clock |-> <<(DigitsValue(hh) % 12) + (IF UpperCase(ap[1]) = 80 THEN 12 ELSE 0),
                          DigitsValue(mm), DigitsValue(ss)>>]

\* JSONHelper.format_time: raises when strptime does
format_time(remote_time) ==
    LET parsed == strptime12(remote_time) IN
    [raised |-> parsed.raised, text |-> strftime(parsed.clock)]

\* JSONHelper.json_to_view_message, from the text: the ViewMessage, or raised
\* when format_time raises (the display name is looked up as in
\* json_to_view_message above and is not part of the wire)
json_text_to_view_message(json_view_message) ==
    LET view_message_dict == json_loads(json_view_message)
        time == format_time(view_message_dict[JSON_MESSAGE_TIME_KEY])
    IN  [raised |-> time.raised,
         view_message |->
            TimedMessage(time.text,
                         view_message_dict[JSON_MESSAGE_BODY_KEY],
                         view_message_dict[JSON_MESSAGE_ID_KEY],
                         view_message_dict[JSON_MESSAGE_TYPE_KEY])]

\* Inputs: bodies over an ASCII letter, the characters JSON escapes, and
\* characters of two, three and four UTF-8 bytes; times of day on both sides
\* of noon and midnight
BodyChars == {65, 34, 92, 10, 233, 8364, 128512}
WireBodies == UNION {[1..n -> BodyChars] : n \in 1..MaxBody}
Clocks == {<<0, 0, 0>>, <<9, 5, 7>>, <<12, 0, 0>>, <<13, 30, 59>>, <<23, 59, 59>>}
WireIds == {<<55, 55, 55>>}               \* '777'
WireTypes == {TYPE_OUTGOING_TEXT, TYPE_INCOMING_TEXT}

\* the messages the client builds: message_time is written with
\* ViewMessage.TIME_FORMAT_STR, by send_message and by format_time alike
ClientMessages ==
    {TimedMessage(strftime(clock), body, id, type) :
        clock \in Clocks, body \in WireBodies, id \in WireIds, type \in WireTypes}

\* the messages as the server holds them, with its own time format
RemoteMessages ==
    {TimedMessage(remote_strftime(clock), body, id, TYPE_INCOMING_TEXT) :
        clock \in Clocks, body \in [1..1 -> BodyChars], id \in WireIds}

NoResult == [raised |-> FALSE, view_message |-> TimedMessage(<<>>, <<>>, <<>>, <<>>)]

\* the client encodes view_message for write_server
EncodeCall(view_message) ==
    /\ fg.pc = "idle"
    /\ fg' = [Fg("encoded") EXCEPT !.data =
          [by |-> "client", view_message |-> view_message,
           json |-> view_message_to_json_text(view_message),
           wire |-> write_server_bytes(view_message_to_json_text(view_message)),
           result |-> NoResult]]
    /\ UNCHANGED <<connected, socket, socks, loopers, contact_views, heap,
                   shown_views, current_view, log_view, history>>

\* a JSON text of the server arrives
RemoteCall(view_message) ==
    /\ fg.pc = "idle"
    /\ fg' = [Fg("encoded") EXCEPT !.data =
          [by |-> "server", view_message |-> view_message,
           json |-> view_message_to_json_text(view_message),
           wire |-> write_server_bytes(view_message_to_json_text(view_message)),
           result |-> NoResult]]
    /\ UNCHANGED <<connected, socket, socks, loopers, contact_views, heap,
                   shown_views, current_view, log_view, history>>

\* the client decodes the text
DecodeCall ==
    /\ fg.pc = "encoded"
    /\ fg' = [fg EXCEPT !.pc = "decoded",
                        !.data.result = json_text_to_view_message(fg.data.json)]
    /\ UNCHANGED <<connected, socket, socks, loopers, contact_views, heap,
                   shown_views, current_view, log_view, history>>

\* the next message
DecodeReturn ==
    /\ fg.pc = "decoded"
    /\ fg' = Fg("idle")
    /\ UNCHANGED <<connected, socket, socks, loopers, contact_views, heap,
                   shown_views, current_view, log_view, history>>

JsonNext ==
    \/ \E view_message \in ClientMessages : EncodeCall(view_message)
    \/ \E view_message \in RemoteMessages : RemoteCall(view_message)
    \/ DecodeCall
    \/ DecodeReturn

JsonSpec == Init /\ [][JsonNext]_vars

(* ------- handle_input with a text: the test, then send_message --------- *)

\* handle_input on the enter key with a text that is no command: the test
\* "connected and shown_views[current_view] != log_view" holds. fg.i keeps the
\* length of the text until send_message is entered.
HandleInputText(len) ==
    /\ fg.pc = "idle"
    /\ connected
    /\ current_view \in ShownKeys(shown_views)
    /\ ShownRef(shown_views, current_view) # LogRef
    /\ Len(heap[ShownRef(shown_views, current_view)].content) < MaxContent
    /\ fg' = [Fg("call") EXCEPT !.i = len]
    /\ UNCHANGED <<connected, socket, socks, loopers, contact_views, heap,
                   shown_views, current_view, log_view, history>>

\* send_message is entered: the chunks are made for the view in focus. The
\* interpreter may have run the receive thread between the test and the call.
SendMessageCall ==
    /\ fg.pc = "call"
    /\ fg' = [Fg("sending") EXCEPT
          !.chunks = view_message_chunk(message_chunk(fg.i), current_view),
          !.i = 1]
    /\ UNCHANGED <<connected, socket, socks, loopers, contact_views, heap,
                   shown_views, current_view, log_view, history>>

InputNext ==
    \/ Connect("ok")
    \/ \E s \in Sockets : ServerSend(s, ContactsFrame)
    \/ \E s \in Sockets : PeerClose(s)
    \/ \E s \in Sockets : PeerReset(s)
    \/ SetupCheck
    \/ SnapshotRead
    \/ LoadSnapshot
    \/ StartLoop
    \/ InitViews
    \/ \E t \in Sockets : LoopTest(t)
    \/ \E t \in Sockets : LoopReadFail(t)
    \/ \E name \in MsgArgs : DoMsgMatched(name)
    \/ \E name \in MsgArgs : DoMsgUnmatched(name)
    \/ \E view_index \in 0..MAX_VIEWS : SwitchView(view_index)
    \/ \E len \in TextLens : HandleInputText(len)
    \/ SendMessageCall
    \/ WriteChunk
    \/ WriteChunkFail
    \/ SendDone

InputSpec == Init /\ [][InputNext]_vars

(* ------------- command lines: parse_command and handle_input ---------- *)

DEFAULT_HELP_MESSAGE == "Usage: /<command> <args>"
LIST_COMMAND_LIST_TITLE == "Commands:"

\* A command line is the slash followed by pieces: a blank, or letters (pieces
\* of letters that touch make one word). The lines of this specification name
\* /help and /list, no command, or no command that exists.
LinePieces == {" ", "help", "li", "st", "bogus"}
CommandLines == UNION {[1..n -> LinePieces] : n \in 0..MaxLine}

\* command[1:].split(): the words between the blanks
RECURSIVE split(_, _, _)
split(pieces, word, words) ==
    IF pieces = <<>>
    THEN IF word = "" THEN words ELSE Append(words, word)
    ELSE IF Head(pieces) = " "
    THEN split(Tail(pieces), "", IF word = "" THEN words ELSE Append(words, word))
    ELSE split(Tail(pieces), word \o Head(pieces), words)

\* the attributes of CommandHandler that getattr finds under 'do_' + name
CommandMethods ==
    {"do_connect", "do_msg", "do_disconnect", "do_quit", "do_list", "do_help"}

\* the HELP_ attributes, by the argument of /help (lower case here, the code
\* takes str.upper of 'help_' + args[0])
HelpMessages ==
    [arg \in {"connect", "msg", "disconnect", "list"} |->
        CASE arg = "connect" -> HELP_CONNECT
          [] arg = "msg" -> HELP_MSG
          [] arg = "disconnect" -> "Usage: /disconnect"
          [] arg = "list" -> "Usage: /list"]

\* parse_command as it would be if its except branches returned True
parse_command_true(command) ==
    LET command_parts == split(command, "", <<>>) IN
    IF command_parts = <<>> \/ ("do_" \o command_parts[1]) \notin CommandMethods
    THEN [handled |-> TRUE, method |-> "do_help", args |-> <<>>]
    ELSE [handled |-> TRUE, method |-> "do_" \o command_parts[1],
          args |-> Tail(command_parts)]

\* parse_command: the method to call with its arguments, and the value
\* returned. No word after the slash (IndexError) and no such method
\* (AttributeError) both end in do_help([]) and False.
parse_command(command) ==
    LET command_parts == split(command, "", <<>>) IN
    IF command_parts = <<>> \/ ("do_" \o command_parts[1]) \notin CommandMethods
    THEN [handled |-> FALSE, method |-> "do_help", args |-> <<>>]
    ELSE [handled |-> TRUE, method |-> "do_" \o command_parts[1],
          args |-> Tail(command_parts)]

\* get_commands: the names after 'do_', in the order of dir()
get_commands == <<"connect", "disconnect", "help", "list", "msg", "quit">>

\* do_list: the title, then the commands, indented
RECURSIVE print_messages(_, _)
print_messages(lv, bodies) ==
    IF bodies = <<>> THEN lv
    ELSE print_messages(print_message(lv, Head(bodies)), Tail(bodies))

do_list(lv) ==
    print_messages(print_message(lv, LIST_COMMAND_LIST_TITLE),
                   [k \in DOMAIN get_commands |-> "  " \o get_commands[k]])

\* handle_input on the enter key with a command line in the input: the
\* method parse_command found is run, and the line recorded when
\* parse_command returns True. do_help raises AttributeError, outside
\* parse_command's try, when no HELP_ attribute matches its argument.
HandleCommand(command) ==
    LET parsed == parse_command(command) IN
    /\ fg.pc = "idle"
    /\ Len(log_view) <= MaxCommands
    /\ parsed.method \in {"do_help", "do_list"}
    /\ IF parsed.method = "do_help" /\ parsed.args # <<>>
          /\ parsed.args[1] \notin DOMAIN HelpMessages
       THEN /\ fg' = Fg("crashed")
            /\ UNCHANGED <<log_view, history>>
       ELSE /\ log_view' =
                  IF parsed.method = "do_list" THEN do_list(log_view)
                  ELSE IF parsed.args = <<>>
                  THEN print_message(log_view, DEFAULT_HELP_MESSAGE)
                  ELSE print_message(log_view, HelpMessages[parsed.args[1]])
            /\ history' = IF parsed.handled THEN Append(history, command) ELSE history
            /\ UNCHANGED fg
    /\ UNCHANGED <<connected, socket, socks, loopers, contact_views, heap,
                   shown_views, current_view>>

CommandNext == \E command \in CommandLines : HandleCommand(command)

CommandSpec == Init /\ [][CommandNext]_vars

(* --------------- a specification of /connect's arguments --------------- *)

\* An address as the user types it (no white space: parse_command splits on
\* it): the parts between its dots. A part is what strtoul(base 0) makes of
\* it: a number (decimal, octal or hexadecimal digits), or not a number (a
\* letter, nothing at all).
Number(val) == [num |-> TRUE, val |-> val]
NotANumber == [num |-> FALSE, val |-> 0]
AddressParts == {Number(255), Number(256), NotANumber}
\* 255.255.255.255 with parts left out or added, or with its first or its
\* last part replaced
Addresses ==
    {[i \in 1..n |-> Number(255)] : n \in 1..MaxParts} \cup
    {[i \in 1..4 |-> IF i = k THEN p ELSE Number(255)] :
        k \in {1, 4}, p \in AddressParts}

\* val is written on k bytes
RECURSIVE FitsBytes(_, _)
FitsBytes(val, k) == IF k = 0 THEN val = 0 ELSE FitsBytes(val \div 256, k - 1)

\* socket.inet_aton does not raise: one to four numbers, every number but
\* the last a byte, the last one filling the bytes that are left
inet_aton_ok(ip_address) ==
    LET n == Len(ip_address) IN
    /\ n \in 1..4
    /\ \A i \in 1..n : ip_address[i].num
    /\ \A i \in 1..(n - 1) : ip_address[i].val <= 255
    /\ FitsBytes(ip_address[n].val, 5 - n)

\* ip_address.count('.')
count_dots(ip_address) == Len(ip_address) - 1

\* the test as it would be without the count of the dots
is_valid_ipv4_address_aton(ip_address) == inet_aton_ok(ip_address)

\* ConnectionHandler.is_valid_ipv4_address
is_valid_ipv4_address(ip_address) ==
    IF ~inet_aton_ok(ip_address) THEN FALSE ELSE count_dots(ip_address) = 3

\* A port as the user types it: int(port) raises ValueError (int FALSE) or
\* gives val
Ports ==
    {[int |-> FALSE, val |-> 0]} \cup
    {[int |-> TRUE, val |-> v] : v \in {0, MIN_PORT, MAX_PORT, MAX_PORT + 1}}

\* ConnectionHandler.is_valid_port
is_valid_port(port) ==
    IF ~port.int THEN FALSE ELSE MIN_PORT <= port.val /\ port.val <= MAX_PORT

\* connect(ip_address, port), the socket's connect ending as outcome says
ConnectCall(ip_address, port, outcome) ==
    IF is_valid_ipv4_address(ip_address) /\ is_valid_port(port)
    THEN Connect(outcome)
    ELSE DoConnectInvalid

\* /connect with any arguments, the setup of the connection, its loss and
\* /disconnect
ConnectNext ==
    \/ \E ip_address \in Addresses, port \in Ports, outcome \in ConnectOutcomes :
          ConnectCall(ip_address, port, outcome)
    \/ DoConnectExists
    \/ \E s \in Sockets : ServerSend(s, ContactsFrame)
    \/ \E s \in Sockets : PeerClose(s)
    \/ SetupCheck
    \/ SnapshotRead
    \/ SnapshotReadFail
    \/ LoadSnapshot
    \/ LoadSnapshotRaises
    \/ StartLoop
    \/ InitViews
    \/ \E t \in Sockets : LoopTest(t)
    \/ \E t \in Sockets : LoopReadFail(t)
    \/ DoDisconnect

ConnectSpec == Init /\ [][ConnectNext]_vars

(* ----------------- a specification of the view limit ------------------ *)

\* One session in which the server sends a message from each of seven numbers
\* in turn, then again from the first: more conversations than views.
ViewOrder == <<"555", "777", "101", "102", "103", "104", "105">>
ViewSender(k) == IF k <= Len(ViewOrder) THEN ViewOrder[k] ELSE ViewOrder[1]

\* the server writes its k-th message
ViewServerSend(s) ==
    /\ socks[s].st = "open"
    /\ socks[s].peer = "up"
    /\ socks[s].sent \in 1..MaxViewFrames
    /\ socks' = [socks EXCEPT
          ![s].inbox = Append(@, Frame("msg", ViewSender(socks[s].sent),
                                      TYPE_INCOMING, "m")),
          ![s].sent = @ + 1]
    /\ UNCHANGED <<connected, socket, fg, loopers, contact_views, heap,
                   shown_views, current_view, log_view, history>>

\* /connect succeeds and the contact list arrives; then the server sends, the
\* read_loop thread routes, and the user switches and closes views
ViewNext ==
    \/ Connect("ok")
    \/ \E s \in Sockets : ServerSend(s, ContactsFrame)
    \/ SetupCheck
    \/ SnapshotRead
    \/ LoadSnapshot
    \/ StartLoop
    \/ InitViews
    \/ \E s \in Sockets : ViewServerSend(s)
    \/ \E t \in Sockets : LoopTest(t)
    \/ \E t \in Sockets : LoopRead(t)
    \/ \E t \in Sockets : Route(t)
    \/ \E t \in Sockets : CreateContact(t)
    \/ \E t \in Sockets : AppendMessage(t)
    \/ \E view_index \in 0..MAX_VIEWS : SwitchView(view_index)
    \/ CloseView

ViewSpec == Init /\ [][ViewNext]_vars

\* the same session with /msg: an address equal to the log view's id, and one
\* the server also sends from
ViewMsgArgs == {LOG_VIEW_ID, "105"}

MsgViewNext ==
    \/ ViewNext
    \/ \E name \in ViewMsgArgs : DoMsgMatched(name)
    \/ \E name \in ViewMsgArgs : DoMsgUnmatched(name)

MsgViewSpec == Init /\ [][MsgViewNext]_vars

(* ------------------------------- claims -------------------------------- *)

\* a read_loop thread that has been started and has not ended
Alive(t) == loopers[t].pc \notin {"idle", "done", "raised"}

\* the threads inside socket.recv on the socket object s
Readers(s) ==
    {t \in Sockets : loopers[t].pc = "recv" /\ loopers[t].s = s}
        \cup (IF fg.pc = "snapshot" /\ socket = s THEN {0} ELSE {})

\* the error kinds connect reports in the log view
ConnectErrors == {ERROR_MESSAGE_TIMEOUT, ERROR_MESSAGE_REFUSED, ERROR_MESSAGE_GENERIC}

\* C1: a connect request with a valid address and port ends, for every
\* outcome of socket.connect, with the session Connected, or Disconnected
\* with an error kind recorded in the log view.
C1_ConnectEndsConnectedOrReported ==
    [][(\E outcome \in ConnectOutcomes : Connect(outcome)) =>
          \/ connected'
          \/ /\ ~connected'
             /\ Len(log_view') = Len(log_view) + 1
             /\ log_view'[Len(log_view')].body \in ConnectErrors]_vars

\* C2: while the main loop reads and loads the initial contact list, no
\* read_loop thread is routing a received message.
C2_NoRoutingDuringSnapshot ==
    fg.pc \in {"snapshot", "load"} =>
        \A t \in Sockets : loopers[t].pc \notin {"route", "create", "append"}

\* C3: when read_server in the receive loop observes a peer close or a socket
\* error, the state becomes Disconnected, no exception leaves read_server (the
\* empty message goes back to the loop), and the loop then ends: its next
\* step is the return of read_loop.
C3_ReadFailureEndsLoop ==
    [][\A t \in Sockets :
          /\ (loopers[t].pc = "recv" /\ ReadFails(loopers[t].s)
                  /\ loopers'[t] # loopers[t])
                => (~connected' /\ loopers'[t].pc = "while"
                        /\ loopers'[t].frame = EmptyFrame)
          /\ (loopers[t].pc = "while" /\ loopers[t].frame = EmptyFrame
                  /\ loopers'[t] # loopers[t])
                => loopers'[t].pc = "done"]_vars

\* C4: when the receive loop has read a frame that is malformed or lacks a
\* field, the failure is logged, the session stays Connected and the loop
\* goes on to its next read.
C4_MalformedFrameDiscarded ==
    [][\A t \in Sockets :
          (loopers[t].pc = "route" /\ loopers[t].frame.kind # "msg"
              /\ loopers'[t] # loopers[t])
            => /\ loopers'[t].pc = "while"
               /\ Len(log_view') = Len(log_view) + 1
               /\ connected' = connected]_vars

\* C5: a receive loop blocked in its read on a socket that the user's
\* disconnect has shut down and closed eventually ends.
C5_DisconnectEndsLoop ==
    \A t \in Sockets :
        (loopers[t].pc = "recv" /\ socks[loopers[t].s].closes > 0)
            ~> (loopers[t].pc = "done")

\* C6: at most one read_loop thread is alive.
C6_AtMostOneLooper ==
    Cardinality({t \in Sockets : Alive(t)}) <= 1

\* C7: no socket is read by two threads of control at the same time.
C7_OneReaderPerSocket ==
    \A s \in Sockets : Cardinality(Readers(s)) <= 1

\* C8: no registry write of another thread falls between a receive thread's
\* check that the id is absent and the write that creates its Conversation.
C8_CheckThenCreateSerialized ==
    \A t \in Sockets :
        loopers[t].pc = "create" =>
            loopers[t].vm.related_view_id \notin DOMAIN contact_views

\* C9: /disconnect on a Disconnected session changes nothing of the session:
\* the state, the sockets (no shutdown, no close), the log view, the threads,
\* the registry and the views; no exception ends the handler.
C9_DisconnectIdempotent ==
    [][(~connected /\ DoDisconnect) =>
          /\ UNCHANGED <<connected, socket, socks, loopers, log_view,
                         contact_views, heap, shown_views, current_view>>
          /\ fg'.pc = "idle"]_vars

\* a second /disconnect was entered right after one that closed the socket
C9_Witness ==
    /\ Len(history) >= 2
    /\ history[Len(history)] = "/disconnect"
    /\ history[Len(history) - 1] = "/disconnect"
    /\ ~connected
    /\ socket \in Sockets
    /\ socks[socket].closes = 1

\* C10: once a connection's receive loop has ended, the connection's socket
\* has been closed exactly once and the state is Disconnected, whichever
\* path (user disconnect, peer close, I/O error) ended it.
C10_SocketClosedOnce ==
    \A t \in Sockets :
        loopers[t].pc = "done" => socks[t].closes = 1

\* C11: a process shutdown with a Connected session, by the interrupt handler
\* or by /quit, resets the state to Disconnected and closes the socket.
C11_ShutdownDestroysSession ==
    [][(connected /\ (DoQuit \/ shutdown)) =>
          (~connected' /\ socks'[socket].st = "closed")]_vars

\* the concatenation of the bodies of a sequence of messages
RECURSIVE Bodies(_)
Bodies(view_messages) ==
    IF view_messages = <<>> THEN <<>>
    ELSE Head(view_messages).body \o Bodies(Tail(view_messages))

\* C12: for a text of length L >= 1 and chunk size M, send_message builds
\* exactly ceil(L / M) Outgoing messages; their bodies concatenated in order
\* are the text; every body but the last has length M, the last 1..M.
C12_ChunkingPartitionsText ==
    fg.pc = "chunked" =>
        LET L == Len(fg.data.message)
            M == fg.data.size
            n == Len(fg.chunks) IN
        /\ n = (L + M - 1) \div M
        /\ \A k \in 1..n : fg.chunks[k].message_type = TYPE_OUTGOING
        /\ Bodies(fg.chunks) = fg.data.message
        /\ \A k \in 1..(n - 1) : Len(fg.chunks[k].body) = M
        /\ Len(fg.chunks[n].body) \in 1..M

\* a text of three times MAX_MESSAGE_LEN was cut into three messages
C12_Witness ==
    /\ fg.pc = "chunked"
    /\ fg.data.size = MAX_MESSAGE_LEN
    /\ Len(fg.data.message) = 3 * MAX_MESSAGE_LEN
    /\ Len(fg.chunks) = 3

\* C13: in a chunked send, once the write of a chunk has failed the session
\* is Disconnected and no write is attempted for a later chunk: a failed
\* write is the last write_server call of the loop.
C13_WriteFailureAbortsSend ==
    \A k \in DOMAIN fg.attempts :
        ~fg.attempts[k].ok => (~connected /\ k = Len(fg.attempts))

\* C14: when send_message ends, every chunk whose write was attempted, failed
\* or not, has been appended to the focused conversation, in the order of the
\* text, after the messages the conversation had.
C14_AttemptedChunksRecorded ==
    [][SendDone =>
          LET r == ShownRef(shown_views, current_view)
              before == heap[r].content
              after == heap'[r].content IN
          /\ Len(after) = Len(before) + Len(fg.attempts)
          /\ SubSeq(after, 1, Len(before)) = before
          /\ \A k \in DOMAIN fg.attempts :
                view_message_to_json(after[Len(before) + k]) = fg.attempts[k].json]_vars

\* a send of two chunks has ended with both in the focused conversation,
\* after a write failed: the session is Disconnected with 'Lost connection'
\* logged last, while the receive thread has met no failed read
C14_Witness ==
    /\ fg.pc = "idle"
    /\ ~connected
    /\ socket \in Sockets
    /\ loopers[socket].pc = "while"
    /\ loopers[socket].frame = NoFrame
    /\ log_view[Len(log_view)].body = ERROR_LOST_CONNECTION
    /\ current_view \in ShownKeys(shown_views)
    /\ ShownRef(shown_views, current_view) # LogRef
    /\ LET content == heap[ShownRef(shown_views, current_view)].content IN
          /\ Len(content) = 2
          /\ \A k \in 1..2 : content[k].message_type = TYPE_OUTGOING

\* C15: the chunks of one send_message are written in the order of the text,
\* one write_server call per chunk, each after the one before it returned:
\* the k-th call of the loop writes the k-th chunk.
C15_ChunksWrittenInOrder ==
    fg.pc = "sending" =>
        /\ Len(fg.attempts) = fg.i - 1
        /\ Len(fg.attempts) <= Len(fg.chunks)
        /\ \A k \in DOMAIN fg.attempts :
              fg.attempts[k].json = view_message_to_json(fg.chunks[k])

\* both chunks of a two-chunk send have been written
C15_Witness ==
    /\ fg.pc = "sending"
    /\ Len(fg.chunks) = 2
    /\ Len(fg.attempts) = 2
    /\ \A k \in 1..2 : fg.attempts[k].ok

\* C16: every message send_message builds is Outgoing and carries the id of
\* the conversation focused at the call; the messages are appended to that
\* conversation and to no other view.
C16_OutgoingToFocusedConversation ==
    [][/\ (\E len \in TextLens : SendMessage(len)) =>
             \A k \in DOMAIN fg'.chunks :
                /\ fg'.chunks[k].message_type = TYPE_OUTGOING
                /\ fg'.chunks[k].related_view_id = current_view
       /\ SendDone =>
             LET r == ShownRef(shown_views, current_view) IN
             /\ \A k \in DOMAIN fg.chunks :
                   fg.chunks[k].related_view_id = heap[r].view_id
             /\ heap'[r].content = heap[r].content \o fg.chunks
             /\ \A q \in Refs \ {r} : heap'[q] = heap[q]
             /\ log_view' = log_view]_vars

\* a message sent to the focused conversation "777" is its only message
C16_Witness ==
    /\ fg.pc = "idle"
    /\ current_view = "777"
    /\ "777" \in ShownKeys(shown_views)
    /\ LET content == heap[ShownRef(shown_views, "777")].content IN
          /\ Len(content) = 1
          /\ content[1].message_type = TYPE_OUTGOING
          /\ content[1].related_view_id = "777"

\* C17: a received message whose id the router found absent from the
\* registry makes exactly one new Conversation: the entry is created (none is
\* replaced), under that id, with the id as display name and an empty log, and
\* no other entry changes; the message then becomes its only element.
C17_FirstWriteCreates ==
    [][\A t \in Sockets :
          LET id == loopers[t].vm.related_view_id IN
          /\ CreateContact(t) =>
                /\ id \notin DOMAIN contact_views
                /\ DOMAIN contact_views' = DOMAIN contact_views \cup {id}
                /\ \A x \in DOMAIN contact_views :
                      /\ contact_views'[x] = contact_views[x]
                      /\ heap'[contact_views[x]] = heap[contact_views[x]]
                /\ heap'[contact_views'[id]] = ContactView(id, id)
          /\ (AppendMessage(t) /\ loopers[t].created) =>
                /\ heap'[contact_views'[id]].display_name = id
                /\ heap'[contact_views'[id]].content = <<loopers[t].vm>>]_vars

\* C18: a received message whose id the router found in the registry reuses
\* the Conversation: the registry is unchanged, the display name too, and the
\* message is appended after the earlier messages, which keep their order.
C18_KnownContactReused ==
    [][\A t \in Sockets :
          LET id == loopers[t].vm.related_view_id IN
          (AppendMessage(t) /\ ~loopers[t].created) =>
              /\ contact_views' = contact_views
              /\ heap'[contact_views[id]].display_name
                    = heap[contact_views[id]].display_name
              /\ heap'[contact_views[id]].content
                    = Append(heap[contact_views[id]].content, loopers[t].vm)
              /\ \A x \in DOMAIN contact_views \ {id} :
                    heap'[contact_views[x]] = heap[contact_views[x]]]_vars

\* a message received from "555", which the snapshot had made the contact
\* "Alice" and to which the user had sent a text, stands after that text in
\* the log of the same contact, still named "Alice"
C18_Witness ==
    /\ "555" \in DOMAIN contact_views
    /\ LET contact_view == heap[contact_views["555"]] IN
          /\ contact_view.display_name = "Alice"
          /\ Len(contact_view.content) = 2
          /\ contact_view.content[1].message_type = TYPE_OUTGOING
          /\ contact_view.content[2].message_type = TYPE_INCOMING
          /\ contact_view.content[2].related_view_id = "555"
    /\ \A t \in Sockets : loopers[t].pc \notin {"route", "create", "append"}

\* s is a prefix of t
IsPrefix(s, t) == Len(s) <= Len(t) /\ SubSeq(t, 1, Len(s)) = s

\* C19: the log of the registry's Conversation for an address is append-only:
\* whatever step is taken, the address stays in the registry and the log it
\* had is a prefix of the log it has.
C19_LogAppendOnly ==
    [][\A id \in DOMAIN contact_views :
          /\ id \in DOMAIN contact_views'
          /\ IsPrefix(heap[contact_views[id]].content,
                      heap'[contact_views'[id]].content)]_vars

\* C20 (as stated): after the router has processed a received message, the
\* message's conversation id is among the shown views.
C20_ShownAfterRouting ==
    [][\A t \in Sockets :
          AppendMessage(t) =>
              loopers[t].vm.related_view_id \in ShownKeys(shown_views')]_vars

\* C20 (amended): after the router has processed a received message whose id
\* was shown, the shown views are unchanged; if the id was not shown and at
\* most MAX_VIEWS views were shown, the registry's Conversation of the id is
\* added as the last view; if more than MAX_VIEWS views were shown, no view is
\* added and ERROR_MAX_VIEWS is written to the log view.
C20_ShownUnlessFull ==
    [][\A t \in Sockets :
          LET id == loopers[t].vm.related_view_id IN
          AppendMessage(t) =>
              IF id \in ShownKeys(shown_views)
              THEN shown_views' = shown_views /\ log_view' = log_view
              ELSE IF Len(shown_views) <= MAX_VIEWS
              THEN /\ shown_views' = Append(shown_views,
                          [view_id |-> id, ref |-> contact_views[id]])
                   /\ log_view' = log_view
              ELSE /\ shown_views' = shown_views
                   /\ log_view' = print_message(log_view, ERROR_MAX_VIEWS)]_vars

\* the log view and six conversations are shown; the message of a seventh
\* number is in the registry, its view was refused
C20_Witness ==
    /\ Len(shown_views) = MAX_VIEWS + 1
    /\ "105" \in DOMAIN contact_views
    /\ "105" \notin ShownKeys(shown_views)
    /\ Len(heap[contact_views["105"]].content) = 1
    /\ log_view[Len(log_view)].body = ERROR_MAX_VIEWS
    /\ \A t \in Sockets : loopers[t].pc \notin {"route", "create", "append"}

\* C21: the router asks for a notification exactly when the message is
\* Incoming, and whatever the notification subsystem does, the router ends
\* the routing of the message (the message appended, the view shown) and the
\* receive loop goes on to its next loop test.
C21_NotifyNeverStopsRouter ==
    [][\A t \in Sockets :
          /\ AppendMessageNotifyRaises(t) =>
                loopers[t].vm.message_type = TYPE_INCOMING
          /\ (loopers[t].pc = "append" /\ loopers'[t].pc # "append") =>
                /\ loopers'[t].pc = "while"
                /\ LET r == contact_views[loopers[t].vm.related_view_id] IN
                      heap'[r].content = Append(heap[r].content, loopers[t].vm)]_vars

\* C22: a connect request whose address is not four numbers between 0 and
\* 255 separated by dots, or whose port is not an integer between 1 and
\* 65535, is rejected: no socket is created, nothing is read or written, the
\* session stays Disconnected and ERROR_MESSAGE_INVALID is logged.
C22_InvalidArgumentsRejected ==
    [][\A ip_address \in Addresses, port \in Ports, outcome \in ConnectOutcomes :
          LET dotted == /\ Len(ip_address) = 4
                        /\ \A i \in 1..4 : ip_address[i].num /\ ip_address[i].val <= 255
              in_range == port.int /\ port.val >= 1 /\ port.val <= 65535 IN
          (~(dotted /\ in_range) /\ ConnectCall(ip_address, port, outcome)) =>
              /\ ~connected /\ ~connected'
              /\ socket' = socket /\ socks' = socks
              /\ fg' = fg /\ loopers' = loopers
              /\ log_view' = print_message(log_view, "Invalid command argument")]_vars

\* /connect with invalid arguments was the first command: the error is in
\* the log and no socket was ever made
C22_Witness ==
    /\ history = <<"/connect">>
    /\ log_view[Len(log_view)].body = "Invalid command argument"
    /\ ~connected
    /\ socket = NoSocket
    /\ \A s \in Sockets : socks[s].st = "unused"

\* C23: a failed connect attempt is reported by its kind: a timeout as
\* ERROR_MESSAGE_TIMEOUT, a refusal as ERROR_MESSAGE_REFUSED, any other socket
\* error as ERROR_MESSAGE_GENERIC; the handler returns to the main loop and
\* the session is Disconnected.
C23_ConnectErrorKinds ==
    [][\A outcome \in ConnectOutcomes \ {"ok"} :
          Connect(outcome) =>
              /\ ~connected'
              /\ fg'.pc = "idle"
              /\ log_view' = print_message(log_view,
                    CASE outcome = "ETIMEDOUT" -> ERROR_MESSAGE_TIMEOUT
                      [] outcome = "ECONNREFUSED" -> ERROR_MESSAGE_REFUSED
                      [] OTHER -> ERROR_MESSAGE_GENERIC)]_vars

\* C24: no exception reaches the main loop, whatever fails (the connect, the
\* read of the initial data, a send, a receive, a command), and the main loop
\* ends only by the user's quit (/quit or the interrupt key).
C24_NoErrorStopsProcess ==
    [][/\ fg'.pc # "crashed"
       /\ (fg'.pc = "exited" /\ fg.pc # "exited") => (DoQuit \/ shutdown)]_vars

\* the pieces written to a socket are whole frames: every prefix is followed
\* at once by the payload of its own frame, and every payload follows its
\* prefix
WholeFrames(out) ==
    /\ Len(out) % 2 = 0
    /\ \A k \in 1..(Len(out) \div 2) :
          /\ out[2 * k - 1].part = "prefix"
          /\ out[2 * k].part = "payload"
          /\ out[2 * k].json = out[2 * k - 1].json

\* C25 (as stated): outside a write_server call, what has been written to a
\* socket is a sequence of whole frames, each prefix followed at once by its
\* own payload.
C25_StreamOfWholeFrames ==
    \A s \in Sockets :
        ~(fg.pc = "payload" /\ socket = s) => WholeFrames(socks[s].out)

\* C25 (amended): what has been written to a socket is a sequence of whole
\* frames, each prefix followed at once by its own payload and no piece of
\* another frame between them; at most the last frame lacks its payload, and
\* then its write_server call is still running, or the socket is closed or
\* broken, or the program has ended, so that nothing is written after it.
C25_WholeFramesUntilFailure ==
    \A s \in Sockets :
        LET out == socks[s].out IN
        \/ WholeFrames(out)
        \/ /\ WholeFrames(SubSeq(out, 1, Len(out) - 1))
           /\ out[Len(out)].part = "prefix"
           /\ \/ fg.pc = "payload" /\ socket = s
              \/ ~write_ok(s)
              \/ fg.pc \in {"exited", "crashed"}

\* two frames of one send are on the socket, whole and in order
C25_Witness ==
    /\ socket \in Sockets
    /\ Len(socks[socket].out) = 4
    /\ WholeFrames(socks[socket].out)
    /\ socks[socket].out[1].json # socks[socket].out[3].json
    /\ fg.pc = "idle"

\* C26: for every message the client writes, the four prefix bytes, read as
\* a big-endian unsigned number, give exactly the number of bytes of the
\* UTF-8 encoded JSON payload, whatever characters the body holds.
C26_PrefixIsPayloadLength ==
    (fg.pc \in {"encoded", "decoded"} /\ fg.data.by = "client") =>
        /\ Len(fg.data.wire.prefix) = 4
        /\ \A k \in 1..4 : fg.data.wire.prefix[k] \in 0..255
        /\ struct_unpack(fg.data.wire.prefix) = Len(fg.data.wire.payload)
        /\ fg.data.wire.payload = encode_utf8(fg.data.json)

\* a body with a character of four UTF-8 bytes and one of two has been encoded
C26_Witness ==
    /\ fg.pc = "encoded"
    /\ fg.data.by = "client"
    /\ fg.data.view_message.body = <<128512, 233>>
    /\ struct_unpack(fg.data.wire.prefix) = Len(fg.data.wire.payload)

\* C27: a message of the client, encoded with view_message_to_json and then
\* decoded with json_to_view_message, decodes without an exception to the
\* same body, relatedContactId and smsMessageType and to a time text that
\* denotes the same time of day.
C27_RoundTrip ==
    (fg.pc = "decoded" /\ fg.data.by = "client") =>
        /\ ~fg.data.result.raised
        /\ fg.data.result.view_message.body = fg.data.view_message.body
        /\ fg.data.result.view_message.related_view_id
              = fg.data.view_message.related_view_id
        /\ fg.data.result.view_message.message_type
              = fg.data.view_message.message_type
        /\ fg.data.result.view_message.message_time
              = fg.data.view_message.message_time

\* C28: a Connected session becomes Disconnected only in a step of
\* /disconnect, of the shutdown, or of a read or write on the session's own
\* socket that fails (the peer closed, or an I/O error); and a thread reading
\* an open socket on which nothing has arrived and whose peer is up has no
\* step, there being no timeout: the session stays as it is.
C28_OnlyNamedCausesDisconnect ==
    [][/\ (connected /\ ~connected') =>
             \/ DoDisconnect
             \/ DoQuit
             \/ shutdown
             \/ ReadFails(socket) /\ SnapshotReadFail
             \/ \E t \in Sockets :
                   loopers[t].s = socket /\ ReadFails(socket) /\ LoopReadFail(t)
             \/ write_fails(socket) /\ WriteChunkFail
       /\ \A t \in Sockets :
             (/\ loopers[t].pc = "recv"
              /\ loopers[t].s \in Sockets
              /\ socks[loopers[t].s].st = "open"
              /\ socks[loopers[t].s].peer = "up"
              /\ socks[loopers[t].s].inbox = <<>>)
                 => ~ENABLED LooperStep(t)]_vars

\* C29: whenever the session is Disconnected while a receive thread is alive,
\* that thread eventually ends: it neither stays alive forever nor goes on
\* into a later connection.
C29_DisconnectedEndsEveryLoop ==
    \A t \in Sockets : (~connected /\ Alive(t)) ~> ~Alive(t)

\* C30: a receive thread ends only by leaving the loop at its test and
\* returning from read_loop through the refresh of the divider (pc "done"),
\* and it leaves the loop only when the session is Disconnected.
C30_ExitRefreshesOnce ==
    [][\A t \in Sockets :
          (Alive(t) /\ ~Alive(t)') =>
              /\ loopers'[t].pc = "done"
              /\ ~connected
              /\ LoopTest(t)]_vars

\* C31: for every contact id that is both in the registry and among the
\* shown views, the view shown is the very object the registry holds.
C31_OneObjectPerAddress ==
    \A i \in DOMAIN shown_views :
        shown_views[i].view_id \in DOMAIN contact_views =>
            shown_views[i].ref = contact_views[shown_views[i].view_id]

\* a line with no word after the slash, or whose first word is no command
UnknownCommand(command) ==
    \/ \A k \in DOMAIN command : command[k] = " "
    \/ split(command, "", <<>>)[1]
          \notin {"connect", "msg", "disconnect", "quit", "list", "help"}

\* C32: a command line that is empty after the slash or names an unknown
\* command raises nothing, prints the default help to the log view and
\* nothing else, is reported not handled, is not recorded in the history and
\* changes nothing else.
C32_UnknownCommandPrintsHelp ==
    [][\A command \in CommandLines :
          (UnknownCommand(command) /\ HandleCommand(command)) =>
              /\ log_view' = print_message(log_view, DEFAULT_HELP_MESSAGE)
              /\ ~parse_command(command).handled
              /\ history' = history
              /\ fg' = fg
              /\ UNCHANGED <<connected, socket, socks, loopers, contact_views,
                             heap, shown_views, current_view>>]_vars

\* two lines that name no command have been entered: the default help was
\* printed twice, the history is empty
C32_Witness ==
    /\ Len(log_view) = 3
    /\ log_view[2].body = DEFAULT_HELP_MESSAGE
    /\ log_view[3].body = DEFAULT_HELP_MESSAGE
    /\ history = <<>>
    /\ fg.pc = "idle"

\* C33: a view the receive loop added for a message of the current connection
\* leaves the shown views only by a close of the view or by a later connect:
\* an id leaves the shown views only in close_view or in the view reset of a
\* connection setup, and the reset of the first setup that started a receive
\* loop (every view shown then was added by that loop) removes none.
C33_SetupKeepsLoopViews ==
    [][\A id \in ShownKeys(shown_views) \ ShownKeys(shown_views') :
          /\ CloseView \/ InitViews
          /\ InitViews => \E s \in Sockets \ {socket} : loopers[s].pc # "idle"]_vars

C35_ConnectWhileConnected ==
    [][(connected /\ fg.pc = "idle" /\ history' = Append(history, "/connect")) =>
          /\ log_view' = print_message(log_view, CONNECT_CONNECTION_EXIST)
          /\ UNCHANGED <<connected, socket, socks, loopers, contact_views,
                         heap, shown_views, current_view, fg>>]_vars

\* /connect has been answered with 'Already connected' in a session with a
\* contact view shown
C35_Witness ==
    /\ connected
    /\ fg.pc = "idle"
    /\ log_view[Len(log_view)].body = CONNECT_CONNECTION_EXIST
    /\ Len(shown_views) > 1

\* C36: send_message is entered only when the session is Connected and the
\* view in focus is a contact view, so that no frame is written and no
\* Outgoing message appended for a text entered otherwise; and the Log view
\* never holds an Outgoing message.
C36_SendOnlyConnectedToContact ==
    [][/\ (fg.pc = "call" /\ fg'.pc = "sending") =>
              /\ connected
              /\ current_view \in ShownKeys(shown_views)
              /\ ShownRef(shown_views, current_view) # LogRef
       /\ \A k \in DOMAIN log_view' : log_view'[k].message_type # TYPE_OUTGOING]_vars

\* C37: in every reachable state the shown views, the Log view counted, are
\* at most MAX_VIEWS.
C37_AtMostMaxViews == Len(shown_views) <= MAX_VIEWS

\* C38: in every reachable state the first entry of the shown views is the
\* Log view: its id with the LogView object.
C38_LogViewFirst ==
    /\ shown_views # <<>>
    /\ shown_views[1] = [view_id |-> LOG_VIEW_ID, ref |-> LogRef]

\* C39: in every reachable state the focused id is a key of the shown views,
\* and no operation has failed on the lookup of a view that is not shown (the
\* KeyError of switch_view, the one exception of this specification).
C39_FocusIsShown ==
    /\ current_view \in ShownKeys(shown_views)
    /\ fg.pc # "crashed"

====
